---------------------------- MODULE Spec2Model ----------------------------
(***************************************************************************)
(* A model of the context assembly engine of contextsmith: the range       *)
(* merger (slicer.rs, commands/collect.rs), the ranker (ranker.rs), the    *)
(* budget packer (commands/pack.rs, commands/diff.rs, commands/collect.rs),*)
(* the unified diff parser (git.rs), the slicer (slicer.rs), the manifest  *)
(* (manifest.rs), the configuration (config.rs) and the search             *)
(* (indexer.rs, commands/collect.rs).                                      *)
(*                                                                         *)
(* Every pipeline is a pure batch computation.  Each one is modelled by a  *)
(* specification of its own whose initial states draw the inputs from      *)
(* bounded sets and whose actions apply the functions of the source to     *)
(* them.  The variables of the pipelines a specification does not run stay *)
(* at their idle values.                                                   *)
(*                                                                         *)
(* Strings are sequences of byte values, compared as Rust compares `str`   *)
(* (bytewise, lexicographically); usize arithmetic is modelled on naturals *)
(* where a count is bounded by the size of a text held in memory, and with *)
(* the width of UsizeMax where a sum can pass the largest usize.           *)
(***************************************************************************)
EXTENDS Naturals, Integers, Sequences, FiniteSets

VARIABLES
    \* --- range merger -------------------------------------------------------
    ranges,         \* the (start, end) ranges handed to the merge pipeline
    merge_impl,     \* which copy of merge_overlapping_ranges runs
    merged,         \* the result of the merge pipeline
    remerged,       \* the result of running the pipeline again over `merged`
    merge_pc,       \* "ready" | "merged" | "remerged"
    \* --- ranker -------------------------------------------------------------
    rank_sections,  \* sections: &[BundleSection]
    match_counts,   \* match_counts: &[usize], parallel to rank_sections
    weights,        \* weights: &RankingWeights, in tenths
    ranked,         \* the Vec<ScoredSnippet> rank_snippets returns
    rank_pc,        \* "ready" | "done"
    \* --- budget packer (pack, diff, collect) ---------------------------------
    cmd,            \* the command that runs: "pack" | "diff" | "collect"
    candidates,     \* the ordered candidates the command starts from
    options,        \* budget, chars, reserve, model, must, drop of the run
    filtered,       \* the candidates handed to the greedy pass
    effective,      \* the budget handed to the greedy pass
    included,       \* the included candidates the greedy pass returns
    entries,        \* the manifest entries the greedy pass returns
    pack_pc,        \* "ready" | "done" (greedy pass ran) | "empty" (early return)
    \* --- build ---------------------------------------------------------------
    overflow_checks, \* whether the build panics on integer overflow or wraps
    \* --- unified diff parser -------------------------------------------------
    diff_input,     \* the lines of the input consumed so far
    files,          \* files: Vec<DiffFile>
    current_file,   \* current_file: Option<DiffFile>
    current_hunk,   \* current_hunk: Option<DiffHunk>
    old_lineno,     \* old_lineno: usize
    new_lineno,     \* new_lineno: usize
    parse_pc,       \* "parsing" | "done" | "panicked"
    \* --- slicer --------------------------------------------------------------
    slice_files,    \* diff_files: &[DiffFile]
    slice_options,  \* options: &SliceOptions (context_lines, hunks_only)
    disk,           \* the files under options.root: path -> Option<lines>
    slice_pos,      \* how many files the loop has processed
    slice_snippets, \* snippets: Vec<Snippet> of slice_diff_hunks
    reads,          \* the reads of read_file_lines so far: file index, path
    emitted,        \* how many snippets each processed file contributed
    slice_result,   \* Option<Result<Vec<Snippet>>>: the value returned
    slice_pc,       \* "slicing" | "returned" | "panicked"
    \* --- manifest ------------------------------------------------------------
    man_entries,    \* entries: Vec<ManifestEntry> handed to build_manifest
    man_meta,       \* model, budget, reserve handed to build_manifest
    manifest,       \* Option<Manifest>: the manifest built
    manifest_file,  \* Option<JSON>: what the manifest path holds on disk
    loaded,         \* Option<Result<Manifest>>: what read_manifest returned
    man_pc,         \* "start" | "built" | "written" | "read"
    \* --- search (collect --grep) ---------------------------------------------
    search_in,      \* the scanned files, the pattern, context_lines, max_files
    search_disk,    \* what each scanned path holds: path -> Option<lines>
    search_reads,   \* the paths read so far, in order
    search_out,     \* matches and files_matched of search_files, the sections
    search_pc       \* "ready" | "searched" | "done" | "failed"

mergeVars == <<ranges, merge_impl, merged, remerged, merge_pc>>

rankVars == <<rank_sections, match_counts, weights, ranked, rank_pc>>

packVars ==
    <<cmd, candidates, options, filtered, effective, included, entries, pack_pc>>

parseVars ==
    <<diff_input, files, current_file, current_hunk, old_lineno, new_lineno,
      parse_pc>>

sliceVars ==
    <<slice_files, slice_options, disk, slice_pos, slice_snippets, reads,
      emitted, slice_result, slice_pc>>

manifestVars ==
    <<man_entries, man_meta, manifest, manifest_file, loaded, man_pc>>

searchVars ==
    <<search_in, search_disk, search_reads, search_out, search_pc>>

vars ==
    <<overflow_checks, mergeVars, rankVars, packVars, parseVars, sliceVars,
      manifestVars, searchVars>>

\* The variables each part of the program leaves alone.
notMergeVars ==
    <<overflow_checks, rankVars, packVars, parseVars,
      sliceVars, manifestVars, searchVars>>
notRankVars ==
    <<overflow_checks, mergeVars, packVars, parseVars,
      sliceVars, manifestVars, searchVars>>
notPackVars ==
    <<overflow_checks, mergeVars, rankVars, parseVars,
      sliceVars, manifestVars, searchVars>>
notParseVars ==
    <<overflow_checks, mergeVars, rankVars, packVars,
      sliceVars, manifestVars, searchVars>>
notSliceVars ==
    <<overflow_checks, mergeVars, rankVars, packVars,
      parseVars, manifestVars, searchVars>>
notManifestVars ==
    <<overflow_checks, mergeVars, rankVars, packVars,
      parseVars, sliceVars, searchVars>>
notSearchVars ==
    <<overflow_checks, mergeVars, rankVars, packVars, parseVars, sliceVars,
      manifestVars>>

Max(a, b) == IF a >= b THEN a ELSE b
Min(a, b) == IF a <= b THEN a ELSE b

(***************************************************************************)
(* Bounds of the model.                                                    *)
(***************************************************************************)
MaxLine == 4
MaxRanges == 3
MaxRanked == 3
MaxCount == 2
MaxSections == 4
MaxBudget == 4

(***************************************************************************)
(* Range merger.  A range is a pair <<start, end>>.                        *)
(***************************************************************************)
\* ranges.sort_by_key(|&(s, _)| s): a stable sort, so a range is inserted
\* behind every range whose start is not greater than its own.
RECURSIVE InsertByStart(_, _)
InsertByStart(r, s) ==
    IF s = <<>> THEN <<r>>
    ELSE IF Head(s)[1] <= r[1] THEN <<Head(s)>> \o InsertByStart(r, Tail(s))
    ELSE <<r>> \o s

RECURSIVE sort_by_start(_)
sort_by_start(rs) ==
    IF rs = <<>> THEN <<>>
    ELSE InsertByStart(rs[Len(rs)], sort_by_start(SubSeq(rs, 1, Len(rs) - 1)))

\* Mutant: only overlapping ranges are combined, adjacent ones are not.
slicer_merge_step_no_adjacent(acc, r) ==
    IF acc # <<>> /\ r[1] <= acc[Len(acc)][2]
    THEN [acc EXCEPT ![Len(acc)] = <<@[1], Max(@[2], r[2])>>]
    ELSE Append(acc, r)

\* slicer.rs: the body of the loop of merge_overlapping_ranges.
slicer_merge_step(acc, r) ==
    IF acc # <<>> /\ r[1] <= acc[Len(acc)][2] + 1
    THEN [acc EXCEPT ![Len(acc)] = <<@[1], Max(@[2], r[2])>>]
    ELSE Append(acc, r)

\* Mutant: the `continue` after extending the last range is missing.
collect_merge_step_no_continue(acc, r) ==
    IF acc # <<>> /\ r[1] <= acc[Len(acc)][2] + 1
    THEN Append([acc EXCEPT ![Len(acc)] = <<@[1], Max(@[2], r[2])>>], r)
    ELSE Append(acc, r)

\* commands/collect.rs: the body of the loop of merge_overlapping_ranges.
collect_merge_step(acc, r) ==
    IF acc # <<>> /\ r[1] <= acc[Len(acc)][2] + 1
    THEN [acc EXCEPT ![Len(acc)] = <<@[1], Max(@[2], r[2])>>]
    ELSE Append(acc, r)

\* slicer.rs: `for (start, end) in sorted` over `merged`.
RECURSIVE slicer_merge_loop(_, _)
slicer_merge_loop(acc, rest) ==
    IF rest = <<>> THEN acc
    ELSE slicer_merge_loop(slicer_merge_step(acc, Head(rest)), Tail(rest))

\* commands/collect.rs: `for (start, end) in sorted` over `merged`.
RECURSIVE collect_merge_loop(_, _)
collect_merge_loop(acc, rest) ==
    IF rest = <<>> THEN acc
    ELSE collect_merge_loop(collect_merge_step(acc, Head(rest)), Tail(rest))

slicer_merge_overlapping_ranges(sorted) == slicer_merge_loop(<<>>, sorted)

collect_merge_overlapping_ranges(sorted) == collect_merge_loop(<<>>, sorted)

\* The tail of compute_merged_ranges (slicer) and compute_match_ranges
\* (collect): sort by start, then merge.
MergePipeline(which, rs) ==
    IF which = "slicer"
    THEN slicer_merge_overlapping_ranges(sort_by_start(rs))
    ELSE collect_merge_overlapping_ranges(sort_by_start(rs))

RangePairs == (1..MaxLine) \X (1..MaxLine)

RangeLists == UNION {[1..n -> RangePairs] : n \in 0..MaxRanges}

MergeIdle ==
    /\ ranges = <<>>
    /\ merge_impl = "none"
    /\ merged = <<>>
    /\ remerged = <<>>
    /\ merge_pc = "idle"

RankIdle ==
    /\ rank_sections = <<>>
    /\ match_counts = <<>>
    /\ weights = [text |-> 0, diff |-> 0, recency |-> 0, proximity |-> 0, test |-> 0]
    /\ ranked = <<>>
    /\ rank_pc = "idle"

PackIdle ==
    /\ cmd = "none"
    /\ candidates = <<>>
    /\ options = [budget |-> <<>>, chars |-> <<>>, reserve |-> <<>>,
                  model |-> <<>>, must |-> {}, drop |-> {}]
    /\ filtered = <<>>
    /\ effective = <<>>
    /\ included = <<>>
    /\ entries = <<>>
    /\ pack_pc = "idle"

ParseIdle ==
    /\ diff_input = <<>>
    /\ files = <<>>
    /\ current_file = <<>>
    /\ current_hunk = <<>>
    /\ old_lineno = 0
    /\ new_lineno = 0
    /\ parse_pc = "idle"

SliceIdle ==
    /\ slice_files = <<>>
    /\ slice_options = [context_lines |-> 0, hunks_only |-> FALSE]
    /\ disk = <<>>
    /\ slice_pos = 0
    /\ slice_snippets = <<>>
    /\ reads = <<>>
    /\ emitted = <<>>
    /\ slice_result = <<>>
    /\ slice_pc = "idle"

ManifestIdle ==
    /\ man_entries = <<>>
    /\ man_meta = [model |-> "", budget |-> <<>>, reserve |-> 0]
    /\ manifest = <<>>
    /\ manifest_file = <<>>
    /\ loaded = <<>>
    /\ man_pc = "idle"

SearchIdle ==
    /\ search_in = <<>>
    /\ search_disk = <<>>
    /\ search_reads = <<>>
    /\ search_out = <<>>
    /\ search_pc = "idle"

\* The parts of the program a specification does not run; only the parser
\* and the slicer depend on the build's overflow checks.
NoOverflow == overflow_checks = FALSE
NotMergeIdle ==
    NoOverflow /\ RankIdle /\ PackIdle /\ ParseIdle
    /\ SliceIdle /\ ManifestIdle /\ SearchIdle
NotRankIdle ==
    NoOverflow /\ MergeIdle /\ PackIdle /\ ParseIdle
    /\ SliceIdle /\ ManifestIdle /\ SearchIdle
NotPackIdle ==
    NoOverflow /\ MergeIdle /\ RankIdle /\ ParseIdle
    /\ SliceIdle /\ ManifestIdle /\ SearchIdle
NotParseIdle ==
    MergeIdle /\ RankIdle /\ PackIdle /\ SliceIdle
    /\ ManifestIdle /\ SearchIdle
NotSliceIdle ==
    MergeIdle /\ RankIdle /\ PackIdle /\ ParseIdle
    /\ ManifestIdle /\ SearchIdle
NotManifestIdle ==
    NoOverflow /\ MergeIdle /\ RankIdle /\ PackIdle
    /\ ParseIdle /\ SliceIdle /\ SearchIdle
NotSearchIdle ==
    NoOverflow /\ MergeIdle /\ RankIdle /\ PackIdle
    /\ ParseIdle /\ SliceIdle /\ ManifestIdle

InitMerge ==
    /\ NotMergeIdle
    /\ ranges \in RangeLists
    /\ merge_impl \in {"slicer", "collect"}
    /\ merged = <<>>
    /\ remerged = <<>>
    /\ merge_pc = "ready"

\* compute_merged_ranges / compute_match_ranges reach their last two lines.
Merge ==
    /\ merge_pc = "ready"
    /\ merged' = MergePipeline(merge_impl, ranges)
    /\ merge_pc' = "merged"
    /\ UNCHANGED <<ranges, merge_impl, remerged>>
    /\ UNCHANGED notMergeVars

\* The same pipeline run over its own result.
Remerge ==
    /\ merge_pc = "merged"
    /\ remerged' = MergePipeline(merge_impl, merged)
    /\ merge_pc' = "remerged"
    /\ UNCHANGED <<ranges, merge_impl, merged>>
    /\ UNCHANGED notMergeVars

NextMerge == Merge \/ Remerge

SpecMerge == InitMerge /\ [][NextMerge]_vars

(***************************************************************************)
(* Strings.  A string is the sequence of its bytes; `str::cmp` compares    *)
(* bytewise and lexicographically, a proper prefix sorting first.          *)
(***************************************************************************)
RECURSIVE str_cmp(_, _)
str_cmp(a, b) ==
    IF a = <<>> /\ b = <<>> THEN "Equal"
    ELSE IF a = <<>> THEN "Less"
    ELSE IF b = <<>> THEN "Greater"
    ELSE IF Head(a) < Head(b) THEN "Less"
    ELSE IF Head(a) > Head(b) THEN "Greater"
    ELSE str_cmp(Tail(a), Tail(b))

\* Ordering::then_with
then_with(first, second) == IF first = "Equal" THEN second ELSE first

(***************************************************************************)
(* Ranker.  An f64 is modelled by an exact fraction [num, den], den > 0:   *)
(* the scores of one run are match counts over one common total, scaled    *)
(* by one weight, so their order is the order of the exact values.         *)
(***************************************************************************)
Abs(n) == IF n < 0 THEN -n ELSE n

RECURSIVE Gcd(_, _)
Gcd(a, b) == IF b = 0 THEN a ELSE Gcd(b, a % b)

\* The fraction n/d in lowest terms, so that equal values are equal records.
Frac(n, d) ==
    LET g == Gcd(Abs(n), d) IN [num |-> n \div g, den |-> d \div g]

FMul(x, y) == Frac(x.num * y.num, x.den * y.den)

FAdd(x, y) == Frac(x.num * y.den + y.num * x.den, x.den * y.den)

\* f64::partial_cmp on finite values
partial_cmp(x, y) ==
    IF x.num * y.den < y.num * x.den THEN "Less"
    ELSE IF x.num * y.den > y.num * x.den THEN "Greater"
    ELSE "Equal"

RECURSIVE SumSeq(_)
SumSeq(s) == IF s = <<>> THEN 0 ELSE Head(s) + SumSeq(Tail(s))

\* ranker.rs: idf = (n / n.max(1.0)).ln() + 1.0.  Reached only with n >= 1,
\* where the quotient is 1.0 and its logarithm 0.0.
idf(total_sections) ==
    CASE total_sections = Max(total_sections, 1) -> Frac(1, 1)

text_score(match_count, total_matches, total_sections) ==
    IF total_matches = 0 \/ total_sections = 0 THEN Frac(0, 1)
    ELSE FMul(Frac(match_count, total_matches), idf(total_sections))

weighted_score(signals, w) ==
    FAdd(FAdd(FAdd(FAdd(FMul(signals.text, Frac(w.text, 10)),
                        FMul(signals.diff, Frac(w.diff, 10))),
                   FMul(signals.recency, Frac(w.recency, 10))),
              FMul(signals.proximity, Frac(w.proximity, 10))),
         FMul(signals.test, Frac(w.test, 10)))

\* The closure of the `map` in rank_snippets.
score_section(section, count, total_matches, n, w) ==
    LET signals == [text |-> text_score(count, total_matches, n),
                    diff |-> Frac(0, 1), recency |-> Frac(0, 1),
                    proximity |-> Frac(0, 1), test |-> Frac(0, 1)]
    IN [section |-> section, score |-> weighted_score(signals, w),
        signals |-> signals]

\* Mutant: the scores are compared in ascending order.
rank_cmp_ascending(a, b) ==
    then_with(then_with(partial_cmp(a.score, b.score),
                        str_cmp(a.section.file_path, b.section.file_path)),
              str_cmp(a.section.reason, b.section.reason))

\* The comparator closure handed to sort_by in rank_snippets.
rank_cmp(a, b) ==
    then_with(then_with(partial_cmp(b.score, a.score),
                        str_cmp(a.section.file_path, b.section.file_path)),
              str_cmp(a.section.reason, b.section.reason))

\* scored.sort_by(..): a stable sort, so a snippet is inserted behind every
\* snippet that does not compare Greater than it.
RECURSIVE InsertRanked(_, _)
InsertRanked(x, s) ==
    IF s = <<>> THEN <<x>>
    ELSE IF rank_cmp(Head(s), x) # "Greater"
         THEN <<Head(s)>> \o InsertRanked(x, Tail(s))
    ELSE <<x>> \o s

RECURSIVE sort_ranked(_)
sort_ranked(s) ==
    IF s = <<>> THEN <<>>
    ELSE InsertRanked(s[Len(s)], sort_ranked(SubSeq(s, 1, Len(s) - 1)))

\* sections.iter().zip(match_counts.iter()): as long as the shorter input.
rank_snippets(sections, counts, w) ==
    LET total_matches == SumSeq(counts)
        n == Min(Len(sections), Len(counts))
        scored == [i \in 1..n |->
                     score_section(sections[i], counts[i], total_matches,
                                   Len(sections), w)]
    IN sort_ranked(scored)

\* The strings of the model: "a", "ab", "b" order as a < ab < b.
StrA == <<97>>
StrAB == <<97, 98>>
StrB == <<98>>

Section(path, content, reason) ==
    [file_path |-> path, language |-> "rust", content |-> content,
     reason |-> reason]

\* Candidates that tie or differ at every level of the comparator: two with
\* the same path and reason and different contents, one that differs in the
\* reason only, one with another path.
RankSectionSet ==
    {Section(StrA, StrA, StrA), Section(StrA, StrB, StrA),
     Section(StrA, StrA, StrB), Section(StrAB, StrA, StrA)}

\* The text weight is negative, zero or positive (the default 1.0); the
\* other weights are the defaults of RankingWeights.
RankWeights ==
    [text : {-10, 0, 10}, diff : {20}, recency : {5}, proximity : {15},
     test : {8}]

InitRank ==
    /\ NotRankIdle
    /\ \E n \in 0..MaxRanked :
          /\ rank_sections \in [1..n -> RankSectionSet]
          /\ match_counts \in [1..n -> 0..MaxCount]
    /\ weights \in RankWeights
    /\ ranked = <<>>
    /\ rank_pc = "ready"

\* collect_grep / collect_symbol call rank_snippets.
Rank ==
    /\ rank_pc = "ready"
    /\ ranked' = rank_snippets(rank_sections, match_counts, weights)
    /\ rank_pc' = "done"
    /\ UNCHANGED <<rank_sections, match_counts, weights>>
    /\ UNCHANGED notRankVars

NextRank == Rank

SpecRank == InitRank /\ [][NextRank]_vars

(***************************************************************************)
(* Token estimator (tokens.rs).  Option<T> is <<>> for None and <<x>> for  *)
(* Some(x).                                                                *)
(***************************************************************************)
None == <<>>
Some(x) == <<x>>

\* tokens::parse_model over the names the model uses, Gpt4 when none is given.
model_family(model) ==
    IF model = None THEN "Gpt4"
    ELSE IF model[1] = "claude" THEN "Claude"
    ELSE IF model[1] = "gpt-4" THEN "Gpt4"
    ELSE IF model[1] = "gpt-3.5-turbo" THEN "Gpt35"
    ELSE "Unknown"

\* ModelFamily::chars_per_token, in tenths: 4.0 or 3.5.
chars_per_token(family) == IF family = "Claude" THEN 35 ELSE 40

\* CharEstimator::estimate: 0 for the empty text, else ceil(len / ratio).
estimate(family, text) ==
    IF text = <<>> THEN 0
    ELSE (Len(text) * 10 + chars_per_token(family) - 1)
             \div chars_per_token(family)

saturating_sub(a, b) == IF a >= b THEN a - b ELSE 0

\* "x".repeat(c)
repeat_x(c) == [i \in 1..c |-> 120]

(***************************************************************************)
(* Budget packer.                                                          *)
(***************************************************************************)
\* str::contains: the needle is a substring of the haystack.
contains(haystack, needle) ==
    \E i \in 0..(Len(haystack) - Len(needle)) :
        SubSeq(haystack, i + 1, i + Len(needle)) = needle

\* "must-include"
MustIncludeReason == <<109, 117, 115, 116, 45, 105, 110, 99, 108, 117, 100, 101>>

\* diff.rs infer_language: no path of the model has a known extension or
\* a well-known file name.
infer_language(path) == ""

Entry(path, start, end, tokens, chars, reason, score, is_included, language) ==
    [file_path |-> path, start_line |-> start, end_line |-> end,
     token_estimate |-> tokens, char_count |-> chars, reason |-> reason,
     score |-> score, included |-> is_included, language |-> language]

\* pack.rs make_entry
make_entry(section, token_estimate, is_included, reason) ==
    Entry(section.file_path, 0, 0, token_estimate, Len(section.content),
          reason, 0, is_included, section.language)

\* Mutant: a candidate that fills the budget exactly is left out.
is_included_under_strict(budget, included_so_far, tokens_used, token_est) ==
    IF budget = None THEN TRUE
    ELSE IF included_so_far = <<>> THEN TRUE
    ELSE tokens_used + token_est < budget[1]

\* The decision shared by the three greedy passes: `match budget { .. }`.
is_included_under(budget, included_so_far, tokens_used, token_est) ==
    IF budget = None THEN TRUE
    ELSE IF included_so_far = <<>> THEN TRUE
    ELSE tokens_used + token_est <= budget[1]

PackState(inc, ents, used) ==
    [included |-> inc, entries |-> ents, tokens_used |-> used]

\* Mutant: a must-include section is not added to the running total.
pack_must_step_uncounted(st, section, family) ==
    LET token_est == estimate(family, section.content)
    IN PackState(Append(st.included, section),
                 Append(st.entries,
                        make_entry(section, token_est, TRUE, MustIncludeReason)),
                 st.tokens_used)

\* pack.rs greedy_pack: the body of `for section in &must_sections`.
pack_must_step(st, section, family) ==
    LET token_est == estimate(family, section.content)
    IN PackState(Append(st.included, section),
                 Append(st.entries,
                        make_entry(section, token_est, TRUE, MustIncludeReason)),
                 st.tokens_used + token_est)

\* Mutant: the budget is enforced on the first section too.
pack_optional_step_no_first(st, section, family, budget) ==
    LET token_est == estimate(family, section.content)
        is_included == budget = None \/ st.tokens_used + token_est <= budget[1]
    IN PackState(IF is_included THEN Append(st.included, section)
                 ELSE st.included,
                 Append(st.entries,
                        make_entry(section, token_est, is_included,
                                   section.reason)),
                 IF is_included THEN st.tokens_used + token_est
                 ELSE st.tokens_used)

\* pack.rs greedy_pack: the body of `for section in &optional_sections`.
pack_optional_step(st, section, family, budget) ==
    LET token_est == estimate(family, section.content)
        is_included ==
            is_included_under(budget, st.included, st.tokens_used, token_est)
    IN PackState(IF is_included THEN Append(st.included, section)
                 ELSE st.included,
                 Append(st.entries,
                        make_entry(section, token_est, is_included,
                                   section.reason)),
                 IF is_included THEN st.tokens_used + token_est
                 ELSE st.tokens_used)

RECURSIVE pack_must_loop(_, _, _)
pack_must_loop(st, rest, family) ==
    IF rest = <<>> THEN st
    ELSE pack_must_loop(pack_must_step(st, Head(rest), family), Tail(rest),
                        family)

RECURSIVE pack_optional_loop(_, _, _, _)
pack_optional_loop(st, rest, family, budget) ==
    IF rest = <<>> THEN st
    ELSE pack_optional_loop(pack_optional_step(st, Head(rest), family, budget),
                            Tail(rest), family, budget)

\* The predicate of the partition in greedy_pack.
is_must(section, must_paths) ==
    \E m \in must_paths : contains(section.file_path, m)

\* Mutant: the optional sections are processed before the must-include ones.
greedy_pack_optional_first(sections, family, budget, must_paths) ==
    LET IsMust(x) == is_must(x, must_paths)
        IsOptional(x) == ~is_must(x, must_paths)
        must_sections == SelectSeq(sections, IsMust)
        optional_sections == SelectSeq(sections, IsOptional)
    IN pack_must_loop(
           pack_optional_loop(PackState(<<>>, <<>>, 0), optional_sections,
                              family, budget),
           must_sections, family)

\* pack.rs greedy_pack
greedy_pack(sections, family, budget, must_paths) ==
    LET IsMust(x) == is_must(x, must_paths)
        IsOptional(x) == ~is_must(x, must_paths)
        must_sections == SelectSeq(sections, IsMust)
        optional_sections == SelectSeq(sections, IsOptional)
    IN pack_optional_loop(
           pack_must_loop(PackState(<<>>, <<>>, 0), must_sections, family),
           optional_sections, family, budget)

\* Mutant: a section is dropped only when its path equals a drop path.
drop_filter_exact(sections, drop_set) ==
    LET Kept(x) == ~(\E d \in drop_set : x.file_path = d)
    IN SelectSeq(sections, Kept)

\* pack.rs run, step 3: the `filter` over input_bundle.sections.
drop_filter(sections, drop_set) ==
    LET Kept(x) == ~(\E d \in drop_set : contains(x.file_path, d))
    IN SelectSeq(sections, Kept)

\* Result<T>
Ok(x) == [ok |-> TRUE, value |-> x]
Err(e) == [ok |-> FALSE, error |-> e]

\* config.rs Config::default, the two fields validate reads.
DefaultConfig == [default_budget |-> 12000, reserve_tokens |-> 500]

\* config.rs Config::validate
validate(config) ==
    IF config.default_budget = 0
    THEN Err("default_budget must be greater than 0")
    ELSE IF config.reserve_tokens >= config.default_budget
    THEN Err("reserve_tokens must be less than default_budget")
    ELSE Ok("unit")

\* config.rs Config::load, of a file that parses
load(config) == IF validate(config).ok THEN Ok(config) ELSE validate(config)

\* collect.rs load_config: the file found, or the defaults when there is none.
load_config(opts) ==
    IF opts.config # None THEN load(opts.config[1]) ELSE Ok(DefaultConfig)

\* Mutant: the character budget takes precedence over the token budget.
effective_budget_chars_first(opts) ==
    LET reserve == IF opts.reserve = None THEN 0 ELSE opts.reserve[1]
    IN IF opts.chars # None
       THEN Some(saturating_sub(
                estimate(model_family(opts.model), repeat_x(opts.chars[1])),
                reserve))
       ELSE IF opts.budget # None
       THEN Some(saturating_sub(opts.budget[1], reserve))
       ELSE None

\* pack.rs run, step 2: the effective budget.
effective_budget(opts) ==
    LET reserve == IF opts.reserve = None THEN 0 ELSE opts.reserve[1]
    IN IF opts.budget # None
       THEN Some(saturating_sub(opts.budget[1], reserve))
       ELSE IF opts.chars # None
       THEN Some(saturating_sub(
                estimate(model_family(opts.model), repeat_x(opts.chars[1])),
                reserve))
       ELSE None

\* Mutant: the running total is left out of the budget test.
diff_budget_step_no_total(st, snippet, family, budget, n) ==
    LET token_est == estimate(family, snippet.content)
        is_included ==
            \/ budget = None
            \/ st.included = <<>>
            \/ token_est <= budget[1]
    IN PackState(IF is_included THEN Append(st.included, snippet)
                 ELSE st.included,
                 Append(st.entries,
                        Entry(snippet.file_path, snippet.start_line,
                              snippet.end_line, token_est,
                              Len(snippet.content), snippet.reason,
                              n - Len(st.entries), is_included,
                              infer_language(snippet.file_path))),
                 IF is_included THEN st.tokens_used + token_est
                 ELSE st.tokens_used)

\* diff.rs apply_budget_and_build_entries: the body of the loop; the index i
\* of the snippet is the number of entries built so far.
diff_budget_step(st, snippet, family, budget, n) ==
    LET token_est == estimate(family, snippet.content)
        is_included ==
            is_included_under(budget, st.included, st.tokens_used, token_est)
    IN PackState(IF is_included THEN Append(st.included, snippet)
                 ELSE st.included,
                 Append(st.entries,
                        Entry(snippet.file_path, snippet.start_line,
                              snippet.end_line, token_est,
                              Len(snippet.content), snippet.reason,
                              n - Len(st.entries), is_included,
                              infer_language(snippet.file_path))),
                 IF is_included THEN st.tokens_used + token_est
                 ELSE st.tokens_used)

RECURSIVE diff_budget_loop(_, _, _, _, _)
diff_budget_loop(st, rest, family, budget, n) ==
    IF rest = <<>> THEN st
    ELSE diff_budget_loop(diff_budget_step(st, Head(rest), family, budget, n),
                          Tail(rest), family, budget, n)

\* diff.rs apply_budget_and_build_entries
apply_budget_and_build_entries(snippets, family, budget) ==
    diff_budget_loop(PackState(<<>>, <<>>, 0), snippets, family, budget,
                     Len(snippets))

\* collect.rs apply_budget: the body of the loop.
collect_budget_step(st, section, family, budget, n) ==
    LET token_est == estimate(family, section.content)
        is_included ==
            is_included_under(budget, st.included, st.tokens_used, token_est)
    IN PackState(IF is_included THEN Append(st.included, section)
                 ELSE st.included,
                 Append(st.entries,
                        Entry(section.file_path, 0, 0, token_est,
                              Len(section.content), section.reason,
                              n - Len(st.entries), is_included,
                              section.language)),
                 IF is_included THEN st.tokens_used + token_est
                 ELSE st.tokens_used)

RECURSIVE collect_budget_loop(_, _, _, _, _)
collect_budget_loop(st, rest, family, budget, n) ==
    IF rest = <<>> THEN st
    ELSE collect_budget_loop(
             collect_budget_step(st, Head(rest), family, budget, n),
             Tail(rest), family, budget, n)

\* collect.rs apply_budget
apply_budget(sections, family, budget) ==
    collect_budget_loop(PackState(<<>>, <<>>, 0), sections, family, budget,
                        Len(sections))

\* Contents of 0, 1 and 9 bytes: 0, 1 and 3 tokens at 4 chars per token.
Content0 == <<>>
Content1 == <<120>>
Content9 == <<120, 120, 120, 120, 120, 120, 120, 120, 120>>

PackPaths == {StrA, StrAB}
PackContents == {Content0, Content1, Content9}
PackPatterns == {StrA, StrB}

\* A candidate of the command: a BundleSection (pack, collect) or a Snippet
\* (diff).
Candidate(command, path, content) ==
    IF command = "diff"
    THEN [file_path |-> path, start_line |-> 1, end_line |-> 1,
          content |-> content, reason |-> StrA]
    ELSE Section(path, content, StrA)

CandidateLists(command) ==
    UNION {[1..n -> {Candidate(command, q, c) :
                        q \in PackPaths, c \in PackContents}] :
           n \in 0..MaxSections}

Budgets == {None} \cup {Some(b) : b \in 0..MaxBudget}

PatternSets == {{}} \cup {{q} : q \in PackPatterns}

InitPack ==
    /\ NotPackIdle
    /\ cmd \in {"pack", "diff", "collect"}
    /\ candidates \in CandidateLists(cmd)
    /\ \E b \in Budgets, m \in PatternSets, d \in PatternSets :
          options = [budget |-> b, chars |-> None, reserve |-> None,
                     model |-> None, config |-> None,
                     must |-> IF cmd = "pack" THEN m ELSE {},
                     drop |-> IF cmd = "pack" THEN d ELSE {}]
    /\ filtered = <<>>
    /\ effective = None
    /\ included = <<>>
    /\ entries = <<>>
    /\ pack_pc = "ready"

\* pack.rs run: an empty bundle returns early; otherwise the effective
\* budget is computed, the drop filter applied and greedy_pack run.
PackRun ==
    /\ pack_pc = "ready"
    /\ cmd = "pack"
    /\ IF candidates = <<>>
       THEN /\ pack_pc' = "empty"
            /\ UNCHANGED <<filtered, effective, included, entries>>
       ELSE LET kept == drop_filter(candidates, options.drop)
                eff == effective_budget(options)
                out == greedy_pack(kept, model_family(options.model), eff,
                                   options.must)
            IN  /\ filtered' = kept
                /\ effective' = eff
                /\ included' = out.included
                /\ entries' = out.entries
                /\ pack_pc' = "done"
    /\ UNCHANGED <<cmd, candidates, options>>
    /\ UNCHANGED notPackVars

\* diff.rs run, step 3: the snippets of the slicer (possibly none) go through
\* apply_budget_and_build_entries with options.budget.
DiffRun ==
    /\ pack_pc = "ready"
    /\ cmd = "diff"
    /\ LET out == apply_budget_and_build_entries(
                      candidates, model_family(options.model), options.budget)
       IN  /\ filtered' = candidates
           /\ effective' = options.budget
           /\ included' = out.included
           /\ entries' = out.entries
           /\ pack_pc' = "done"
    /\ UNCHANGED <<cmd, candidates, options>>
    /\ UNCHANGED notPackVars

\* collect.rs run: a configuration file that fails to load ends the run; no
\* section returns early; otherwise the sections go through apply_budget with
\* options.budget.
CollectRun ==
    /\ pack_pc = "ready"
    /\ cmd = "collect"
    /\ IF ~load_config(options).ok
       THEN /\ pack_pc' = "failed"
            /\ UNCHANGED <<filtered, effective, included, entries>>
       ELSE IF candidates = <<>>
       THEN /\ pack_pc' = "empty"
            /\ UNCHANGED <<filtered, effective, included, entries>>
       ELSE LET out == apply_budget(candidates, model_family(options.model),
                                    options.budget)
            IN  /\ filtered' = candidates
                /\ effective' = options.budget
                /\ included' = out.included
                /\ entries' = out.entries
                /\ pack_pc' = "done"
    /\ UNCHANGED <<cmd, candidates, options>>
    /\ UNCHANGED notPackVars

NextPack == PackRun \/ DiffRun \/ CollectRun

SpecPack == InitPack /\ [][NextPack]_vars

\* The configurations of a run: the budget options of pack and the
\* configuration file of collect, over a few short candidate lists.
MaxBudgetSections == 2

BudgetCandidateLists(command) ==
    UNION {[1..n -> {Candidate(command, q, c) :
                        q \in PackPaths, c \in PackContents}] :
           n \in 0..MaxBudgetSections}

Reserves == {None} \cup {Some(r) : r \in 0..MaxBudget}

CharBudgets == {None, Some(0), Some(8), Some(9)}

BudgetModels == {None, Some("claude")}

ConfigFiles ==
    {None,
     Some([default_budget |-> MaxBudget, reserve_tokens |-> 0]),
     Some([default_budget |-> 0, reserve_tokens |-> 0]),
     Some([default_budget |-> MaxBudget, reserve_tokens |-> MaxBudget])}

InitBudget ==
    /\ NotPackIdle
    /\ cmd \in {"pack", "collect"}
    /\ candidates \in BudgetCandidateLists(cmd)
    /\ \E b \in Budgets, r \in Reserves, ch \in CharBudgets, f \in ConfigFiles,
          md \in BudgetModels :
          options = [budget |-> b,
                     chars |-> IF cmd = "pack" THEN ch ELSE None,
                     reserve |-> IF cmd = "pack" THEN r ELSE None,
                     model |-> md,
                     config |-> IF cmd = "collect" THEN f ELSE None,
                     must |-> {}, drop |-> {}]
    /\ filtered = <<>>
    /\ effective = None
    /\ included = <<>>
    /\ entries = <<>>
    /\ pack_pc = "ready"

NextBudget == PackRun \/ CollectRun

SpecBudget == InitBudget /\ [][NextBudget]_vars

(***************************************************************************)
(* String operations of the unified diff parser (git.rs), over strings as  *)
(* byte sequences.                                                         *)
(***************************************************************************)
\* str::starts_with
starts_with(s, prefix) ==
    Len(s) >= Len(prefix) /\ SubSeq(s, 1, Len(prefix)) = prefix

\* str::strip_prefix
strip_prefix(s, prefix) ==
    IF starts_with(s, prefix)
    THEN Some(SubSeq(s, Len(prefix) + 1, Len(s)))
    ELSE None

\* str::find: the byte offset of the first occurrence of pat.
find(s, pat) ==
    LET hits == {i \in 0..(Len(s) - Len(pat)) :
                    SubSeq(s, i + 1, i + Len(pat)) = pat}
    IN IF hits = {} THEN None
       ELSE Some(CHOOSE i \in hits : \A j \in hits : i <= j)

\* str::splitn(2, pat)
splitn2(s, pat) ==
    LET at == find(s, pat)
    IN IF at = None THEN <<s>>
       ELSE <<SubSeq(s, 1, at[1]), SubSeq(s, at[1] + Len(pat) + 1, Len(s))>>

\* str::split(pat)
RECURSIVE split(_, _)
split(s, pat) ==
    LET at == find(s, pat)
    IN IF at = None THEN <<s>>
       ELSE <<SubSeq(s, 1, at[1])>>
                \o split(SubSeq(s, at[1] + Len(pat) + 1, Len(s)), pat)

\* str::split_once(pat)
split_once(s, pat) ==
    LET at == find(s, pat)
    IN IF at = None THEN None
       ELSE Some(<<SubSeq(s, 1, at[1]),
                   SubSeq(s, at[1] + Len(pat) + 1, Len(s))>>)

\* The largest usize of the model.
UsizeMax == 7

\* The value of a sequence of decimal digits.
RECURSIVE digits_value(_)
digits_value(ds) ==
    IF ds = <<>> THEN 0
    ELSE 10 * digits_value(SubSeq(ds, 1, Len(ds) - 1)) + (ds[Len(ds)] - 48)

\* str::parse::<usize>().ok(): an optional '+', then one or more decimal
\* digits whose value fits a usize.
parse_usize(s) ==
    LET ds == IF s # <<>> /\ s[1] = 43 THEN Tail(s) ELSE s
    IN IF ds = <<>> \/ \E i \in 1..Len(ds) : ds[i] \notin 48..57 THEN None
       ELSE IF digits_value(ds) > UsizeMax THEN None
       ELSE Some(digits_value(ds))

\* usize `+= 1`: past the largest usize a build with overflow checks panics
\* and a build without them wraps to 0.
add_one(n, checks) ==
    IF n < UsizeMax THEN [value |-> n + 1, panicked |-> FALSE]
    ELSE [value |-> 0, panicked |-> checks]

(***************************************************************************)
(* Unified diff parser.                                                    *)
(***************************************************************************)
DiffFile(path, old_path, status, hunks) ==
    [path |-> path, old_path |-> old_path, status |-> status, hunks |-> hunks]

DiffHunk(old_start, old_count, new_start, new_count, header, lines) ==
    [old_start |-> old_start, old_count |-> old_count,
     new_start |-> new_start, new_count |-> new_count,
     header |-> header, lines |-> lines]

DiffLine(kind, content, old, new) ==
    [kind |-> kind, content |-> content, old_lineno |-> old, new_lineno |-> new]

\* "diff --git "
DiffGitPrefix == <<100, 105, 102, 102, 32, 45, 45, 103, 105, 116, 32>>
\* " b/"
BSlash == <<32, 98, 47>>
\* "a/"
ASlash == <<97, 47>>
\* "--- /dev/null"
OldDevNull == <<45, 45, 45, 32, 47, 100, 101, 118, 47, 110, 117, 108, 108>>
\* "+++ /dev/null"
NewDevNull == <<43, 43, 43, 32, 47, 100, 101, 118, 47, 110, 117, 108, 108>>
\* "--- "
OldPathPrefix == <<45, 45, 45, 32>>
\* "+++ "
NewPathPrefix == <<43, 43, 43, 32>>
\* "@@ "
HunkPrefix == <<64, 64, 32>>
\* " @@"
HunkEnd == <<32, 64, 64>>
\* "\ No newline at end of file"
NoNewlineMarker == <<92, 32, 78, 111, 32, 110, 101, 119, 108, 105, 110, 101, 32, 97, 116, 32, 101, 110, 100, 32, 111, 102, 32, 102, 105, 108, 101>>

\* Parse a range like "10,7" or "10" into (start, count).
parse_range(s) ==
    LET pair == split_once(s, <<44>>)
    IN IF pair # None
       THEN LET start == parse_usize(pair[1][1])
                count == parse_usize(pair[1][2])
            IN IF start = None \/ count = None THEN None
               ELSE Some(<<start[1], count[1]>>)
       ELSE LET start == parse_usize(s)
            IN IF start = None THEN None ELSE Some(<<start[1], 1>>)

\* Parse a hunk header line like "@@ -10,7 +10,8 @@ fn main()".
parse_hunk_header(line) ==
    LET trimmed == strip_prefix(line, HunkPrefix)
    IN IF trimmed = None THEN None
       ELSE LET end == find(trimmed[1], HunkEnd)
            IN IF end = None THEN None
               ELSE LET range_str == SubSeq(trimmed[1], 1, end[1])
                        parts == split(range_str, <<32>>)
                    IN IF Len(parts) < 2 THEN None
                       ELSE LET old_str == strip_prefix(parts[1], <<45>>)
                                new_str == strip_prefix(parts[2], <<43>>)
                            IN IF old_str = None THEN None
                               ELSE IF parse_range(old_str[1]) = None THEN None
                               ELSE IF new_str = None THEN None
                               ELSE IF parse_range(new_str[1]) = None THEN None
                               ELSE Some(DiffHunk(parse_range(old_str[1])[1][1],
                                                  parse_range(old_str[1])[1][2],
                                                  parse_range(new_str[1])[1][1],
                                                  parse_range(new_str[1])[1][2],
                                                  line, <<>>))

\* Extract (a_path, b_path) from a "diff --git a/path b/path" line.
parse_diff_header(line) ==
    LET stripped == strip_prefix(line, DiffGitPrefix)
        rest == IF stripped = None THEN line ELSE stripped[1]
        parts == splitn2(rest, BSlash)
        a_stripped == strip_prefix(parts[1], ASlash)
        a_path == IF a_stripped = None THEN parts[1] ELSE a_stripped[1]
        b_path == IF Len(parts) >= 2 THEN parts[2] ELSE <<>>
    IN <<a_path, b_path>>

\* Push the current hunk (if any) into the current file: the file afterwards.
\* The hunk is taken in every case.
flush_hunk(file, hunk) ==
    IF file # None /\ hunk # None
    THEN Some([file[1] EXCEPT !.hunks = Append(@, hunk[1])])
    ELSE file

ParserState(fs, file, hunk, old, new, panicked) ==
    [files |-> fs, current_file |-> file, current_hunk |-> hunk,
     old_lineno |-> old, new_lineno |-> new, panicked |-> panicked]

\* A content line is pushed into the current hunk and the counters it is
\* numbered by advance; an overflowing counter panics or wraps.
push_line(st, kind, content, checks) ==
    LET uses_old == kind \in {"Removed", "Context"}
        uses_new == kind \in {"Added", "Context"}
        pushed == DiffLine(kind, content,
                           IF uses_old THEN Some(st.old_lineno) ELSE None,
                           IF uses_new THEN Some(st.new_lineno) ELSE None)
        old == IF uses_old THEN add_one(st.old_lineno, checks)
               ELSE [value |-> st.old_lineno, panicked |-> FALSE]
        new == IF uses_new THEN add_one(st.new_lineno, checks)
               ELSE [value |-> st.new_lineno, panicked |-> FALSE]
    IN ParserState(st.files, st.current_file,
                   Some([st.current_hunk[1] EXCEPT !.lines = Append(@, pushed)]),
                   old.value, new.value, old.panicked \/ new.panicked)

\* parse_unified_diff: the branch for diff content lines, inside a hunk.
content_line(st, line, checks) ==
    IF strip_prefix(line, <<43>>) # None
    THEN push_line(st, "Added", strip_prefix(line, <<43>>)[1], checks)
    ELSE IF strip_prefix(line, <<45>>) # None
    THEN push_line(st, "Removed", strip_prefix(line, <<45>>)[1], checks)
    ELSE IF strip_prefix(line, <<32>>) # None
    THEN push_line(st, "Context", strip_prefix(line, <<32>>)[1], checks)
    ELSE IF line = NoNewlineMarker
    THEN st
    ELSE push_line(st, "Context", line, checks)

\* parse_unified_diff: the branch for a "diff --git " line.
file_header(st, line) ==
    LET flushed == flush_hunk(st.current_file, st.current_hunk)
        paths == parse_diff_header(line)
        a_path == paths[1]
        b_path == paths[2]
        status == IF a_path # b_path THEN "Renamed" ELSE "Modified"
    IN ParserState(IF flushed # None THEN Append(st.files, flushed[1])
                   ELSE st.files,
                   Some(DiffFile(b_path,
                                 IF a_path # b_path THEN Some(a_path) ELSE None,
                                 status, <<>>)),
                   None, st.old_lineno, st.new_lineno, FALSE)

\* parse_unified_diff: the branches for "--- /dev/null" and "+++ /dev/null".
set_status(st, status) ==
    IF st.current_file # None
    THEN [st EXCEPT !.current_file = Some([@[1] EXCEPT !.status = status])]
    ELSE st

\* Mutant: a "@@ " line whose ranges fail to parse leaves the open hunk open.
hunk_header_keeps_hunk(st, line) ==
    LET flushed == flush_hunk(st.current_file, st.current_hunk)
        hunk == parse_hunk_header(line)
    IN IF hunk # None
       THEN ParserState(st.files, flushed, hunk, hunk[1].old_start,
                        hunk[1].new_start, FALSE)
       ELSE st

\* parse_unified_diff: the branch for a "@@ " line.
hunk_header(st, line) ==
    LET flushed == flush_hunk(st.current_file, st.current_hunk)
        hunk == parse_hunk_header(line)
    IN IF hunk # None
       THEN ParserState(st.files, flushed, hunk, hunk[1].old_start,
                        hunk[1].new_start, FALSE)
       ELSE ParserState(st.files, flushed, None, st.old_lineno, st.new_lineno,
                        FALSE)

\* parse_unified_diff: the body of `for line in input.lines()`, run in a
\* build with or without overflow checks.
parse_step(st, line, checks) ==
    IF starts_with(line, DiffGitPrefix) THEN file_header(st, line)
    ELSE IF starts_with(line, OldDevNull) THEN set_status(st, "Added")
    ELSE IF starts_with(line, NewDevNull) THEN set_status(st, "Deleted")
    ELSE IF starts_with(line, OldPathPrefix) \/ starts_with(line, NewPathPrefix)
    THEN st
    ELSE IF starts_with(line, HunkPrefix) THEN hunk_header(st, line)
    ELSE IF st.current_hunk # None
    THEN content_line(st, line, checks)
    ELSE st

\* parse_unified_diff: after the loop, the trailing hunk and file are flushed.
parse_finish(st) ==
    LET flushed == flush_hunk(st.current_file, st.current_hunk)
    IN IF flushed # None THEN Append(st.files, flushed[1]) ELSE st.files

\* Decimal digits of n.
RECURSIVE to_decimal(_)
to_decimal(n) ==
    IF n < 10 THEN <<48 + n>> ELSE Append(to_decimal(n \div 10), 48 + (n % 10))

\* "diff --git a/a b/a"
LineHeaderSame == <<100, 105, 102, 102, 32, 45, 45, 103, 105, 116, 32, 97, 47, 97, 32, 98, 47, 97>>
\* "diff --git a/a b/b"
LineHeaderRename == <<100, 105, 102, 102, 32, 45, 45, 103, 105, 116, 32, 97, 47, 97, 32, 98, 47, 98>>
\* "--- a/a"
LineOldPath == <<45, 45, 45, 32, 97, 47, 97>>
\* "@@ -1,2 +3 @@"
LineHunk == <<64, 64, 32, 45, 49, 44, 50, 32, 43, 51, 32, 64, 64>>
\* "@@ -M +M @@" with M the largest usize
LineHunkMax ==
    HunkPrefix \o <<45>> \o to_decimal(UsizeMax) \o <<32, 43>>
        \o to_decimal(UsizeMax) \o HunkEnd
\* "@@ x"
LineHunkBad == <<64, 64, 32, 120>>
\* "+x", "-x", " x", "x"
LineAdded == <<43, 120>>
LineRemoved == <<45, 120>>
LineContext == <<32, 120>>
LineBare == <<120>>

\* The lines an input is made of.
DiffLines ==
    {LineHeaderSame, LineHeaderRename, OldDevNull, NewDevNull, LineOldPath,
     LineHunk, LineHunkMax, LineHunkBad, LineAdded, LineRemoved, LineContext,
     LineBare, NoNewlineMarker}

\* The longest input, in lines.
MaxInput == 4

InitParse ==
    /\ NotParseIdle
    /\ overflow_checks \in BOOLEAN
    /\ diff_input = <<>>
    /\ files = <<>>
    /\ current_file = None
    /\ current_hunk = None
    /\ old_lineno = 0
    /\ new_lineno = 0
    /\ parse_pc = "parsing"

\* One iteration of the loop over the input's lines.
ParseLine ==
    /\ parse_pc = "parsing"
    /\ Len(diff_input) < MaxInput
    /\ \E line \in DiffLines :
          LET st == parse_step(ParserState(files, current_file, current_hunk,
                                           old_lineno, new_lineno, FALSE),
                               line, overflow_checks)
          IN  /\ diff_input' = Append(diff_input, line)
              /\ files' = st.files
              /\ current_file' = st.current_file
              /\ current_hunk' = st.current_hunk
              /\ old_lineno' = st.old_lineno
              /\ new_lineno' = st.new_lineno
              /\ parse_pc' = IF st.panicked THEN "panicked" ELSE "parsing"
    /\ UNCHANGED notParseVars

\* The input ends: the trailing hunk and file are flushed and files returned.
ParseEnd ==
    /\ parse_pc = "parsing"
    /\ files' = parse_finish(ParserState(files, current_file, current_hunk,
                                         old_lineno, new_lineno, FALSE))
    /\ current_file' = None
    /\ current_hunk' = None
    /\ parse_pc' = "done"
    /\ UNCHANGED <<diff_input, old_lineno, new_lineno>>
    /\ UNCHANGED notParseVars

NextParse == ParseLine \/ ParseEnd

SpecParse == InitParse /\ [][NextParse]_vars

(***************************************************************************)
(* Slicer (slicer.rs).                                                     *)
(***************************************************************************)
Snippet(path, start, end, content, reason) ==
    [file_path |-> path, start_line |-> start, end_line |-> end,
     content |-> content, reason |-> reason]

\* [String]::join(sep)
RECURSIVE join(_, _)
join(strs, sep) ==
    IF strs = <<>> THEN <<>>
    ELSE IF Len(strs) = 1 THEN strs[1]
    ELSE strs[1] \o sep \o join(Tail(strs), sep)

\* usize::saturating_add
saturating_add(a, b) == Min(a + b, UsizeMax)

\* usize `+`: past the largest usize a build with overflow checks panics and
\* a build without them wraps.
add_usize(a, b, checks) ==
    IF a + b <= UsizeMax THEN [value |-> a + b, panicked |-> FALSE]
    ELSE [value |-> (a + b) % (UsizeMax + 1), panicked |-> checks]

\* Map a FileStatus to a human-readable reason string.
status_reason(status) ==
    CASE status = "Added" -> <<97, 100, 100, 101, 100>>
      [] status = "Modified" -> <<109, 111, 100, 105, 102, 105, 101, 100, 32, 105, 110, 32, 100, 105, 102, 102>>
      [] status = "Deleted" -> <<100, 101, 108, 101, 116, 101, 100>>
      [] status = "Renamed" -> <<114, 101, 110, 97, 109, 101, 100>>

\* The closure over a hunk's lines in slice_hunks_only.
prefixed_line(l) ==
    (CASE l.kind = "Added" -> <<43>>
       [] l.kind = "Removed" -> <<45>>
       [] l.kind = "Context" -> <<32>>) \o l.content

\* Mutant: every hunk line is given the context prefix.
hunk_snippet_unprefixed(file, i) ==
    LET hunk == file.hunks[i]
    IN Snippet(file.path, hunk.new_start,
               Max(saturating_add(hunk.new_start, hunk.new_count), 1),
               join([k \in 1..Len(hunk.lines) |-> <<32>> \o hunk.lines[k].content],
                    <<10>>),
               status_reason(file.status) \o <<32, 40, 104, 117, 110, 107, 32>> \o to_decimal(i)
                   \o <<47>> \o to_decimal(Len(file.hunks)) \o <<41>>)

\* slice_hunks_only: the snippet of the hunk at position i (from 1).
hunk_snippet(file, i) ==
    LET hunk == file.hunks[i]
    IN Snippet(file.path, hunk.new_start,
               Max(saturating_add(hunk.new_start, hunk.new_count), 1),
               join([k \in 1..Len(hunk.lines) |-> prefixed_line(hunk.lines[k])],
                    <<10>>),
               status_reason(file.status) \o <<32, 40, 104, 117, 110, 107, 32>> \o to_decimal(i)
                   \o <<47>> \o to_decimal(Len(file.hunks)) \o <<41>>)

\* Extract snippets using only the raw hunk content (no file reading).
slice_hunks_only(file) ==
    [i \in 1..Len(file.hunks) |-> hunk_snippet(file, i)]

\* compute_merged_ranges: the closure mapping a hunk to its expanded range.
hunk_range(h, context_lines, total_lines, checks) ==
    LET IsChange(l) == l.kind = "Added" \/ l.kind = "Removed"
        HasNumber(l) == l.new_lineno # None \/ l.old_lineno # None
        changes == SelectSeq(SelectSeq(h.lines, IsChange), HasNumber)
        changed_lines ==
            [k \in 1..Len(changes) |->
                IF changes[k].new_lineno # None THEN changes[k].new_lineno[1]
                ELSE changes[k].old_lineno[1]]
        numbers == {changed_lines[k] : k \in 1..Len(changed_lines)}
        header_end == add_usize(h.new_start, saturating_sub(h.new_count, 1),
                                checks)
        change_start ==
            IF changed_lines = <<>> THEN h.new_start
            ELSE CHOOSE n \in numbers : \A m \in numbers : n <= m
        change_end ==
            IF changed_lines = <<>> THEN header_end.value
            ELSE CHOOSE n \in numbers : \A m \in numbers : n >= m
        expanded == add_usize(change_end, context_lines, checks)
    IN [range |-> <<Max(saturating_sub(change_start, context_lines), 1),
                    Min(expanded.value, total_lines)>>,
        panicked |-> \/ (changed_lines = <<>> /\ header_end.panicked)
                     \/ expanded.panicked]

\* Mutant: the expanded ranges are sorted and not merged.
compute_merged_ranges_unmerged(hunks, context_lines, total_lines, checks) ==
    LET mapped == [i \in 1..Len(hunks) |->
                      hunk_range(hunks[i], context_lines, total_lines, checks)]
    IN [ranges |-> sort_by_start([i \in 1..Len(hunks) |-> mapped[i].range]),
        panicked |-> \E i \in 1..Len(hunks) : mapped[i].panicked]

\* Compute line ranges for all hunks, expand by context, and merge overlaps.
compute_merged_ranges(hunks, context_lines, total_lines, checks) ==
    LET mapped == [i \in 1..Len(hunks) |->
                      hunk_range(hunks[i], context_lines, total_lines, checks)]
    IN [ranges |-> slicer_merge_overlapping_ranges(
                       sort_by_start([i \in 1..Len(hunks) |-> mapped[i].range])),
        panicked |-> \E i \in 1..Len(hunks) : mapped[i].panicked]

\* Read all lines from a file: None when the file cannot be read.
read_file_lines(path) == IF path \in DOMAIN disk THEN disk[path] ELSE None

\* slice_with_context: the closure of filter_map, over one merged range.
range_snippet(file, file_lines, range) ==
    LET clamped_start == Max(range[1], 1)
        clamped_end == Min(range[2], Len(file_lines))
    IN IF clamped_start > clamped_end THEN None
       ELSE Some(Snippet(file.path, clamped_start, clamped_end,
                         join(SubSeq(file_lines,
                                     saturating_sub(clamped_start, 1) + 1,
                                     clamped_end),
                              <<10>>),
                         status_reason(file.status)))

RECURSIVE filter_map_ranges(_, _, _)
filter_map_ranges(file, file_lines, rs) ==
    IF rs = <<>> THEN <<>>
    ELSE LET made == range_snippet(file, file_lines, Head(rs))
         IN made \o filter_map_ranges(file, file_lines, Tail(rs))

SliceOutcome(kind, made, did_read, panicked) ==
    [kind |-> kind, snippets |-> made, did_read |-> did_read,
     panicked |-> panicked]

\* Mutant: a file that cannot be read contributes no snippet.
slice_with_context_skip_unreadable(file, opts, checks) ==
    IF file.status = "Deleted"
    THEN SliceOutcome("Ok", slice_hunks_only(file), FALSE, FALSE)
    ELSE LET file_lines == read_file_lines(file.path)
         IN IF file_lines = None THEN SliceOutcome("Ok", <<>>, TRUE, FALSE)
            ELSE IF Len(file_lines[1]) = 0
            THEN SliceOutcome("Ok", <<>>, TRUE, FALSE)
            ELSE LET merged_ranges ==
                         compute_merged_ranges(file.hunks, opts.context_lines,
                                               Len(file_lines[1]), checks)
                 IN SliceOutcome("Ok",
                                 filter_map_ranges(file, file_lines[1],
                                                   merged_ranges.ranges),
                                 TRUE, merged_ranges.panicked)

\* Extract snippets by reading the source file and including context lines.
slice_with_context(file, opts, checks) ==
    IF file.status = "Deleted"
    THEN SliceOutcome("Ok", slice_hunks_only(file), FALSE, FALSE)
    ELSE LET file_lines == read_file_lines(file.path)
         IN IF file_lines = None THEN SliceOutcome("Err", <<>>, TRUE, FALSE)
            ELSE IF Len(file_lines[1]) = 0
            THEN SliceOutcome("Ok", <<>>, TRUE, FALSE)
            ELSE LET merged_ranges ==
                         compute_merged_ranges(file.hunks, opts.context_lines,
                                               Len(file_lines[1]), checks)
                 IN SliceOutcome("Ok",
                                 filter_map_ranges(file, file_lines[1],
                                                   merged_ranges.ranges),
                                 TRUE, merged_ranges.panicked)

\* slice_diff_hunks: the body of `for file in diff_files`.
slice_file(file, opts, checks) ==
    IF opts.hunks_only
    THEN SliceOutcome("Ok", slice_hunks_only(file), FALSE, FALSE)
    ELSE slice_with_context(file, opts, checks)

\* A hunk with a context, a removed and an added line: "@@ -1,2 +1,2 @@".
HunkChange ==
    DiffHunk(1, 2, 1, 2, <<>>,
             <<DiffLine("Context", <<49>>, Some(1), Some(1)),
               DiffLine("Removed", <<120>>, Some(2), None),
               DiffLine("Added", <<50>>, None, Some(2))>>)

\* A hunk that adds line 3: "@@ -2,0 +3 @@".
HunkAdd ==
    DiffHunk(2, 0, 3, 1, <<>>, <<DiffLine("Added", <<51>>, None, Some(3))>>)

\* The hunk of a deleted two-line file: "@@ -1,2 +0,0 @@".
HunkDelete ==
    DiffHunk(1, 2, 0, 0, <<>>,
             <<DiffLine("Removed", <<49>>, Some(1), None),
               DiffLine("Removed", <<50>>, Some(2), None)>>)

\* A hunk header with no content line after it: "@@ -2,2 +2,2 @@".
HunkNoLines == DiffHunk(2, 2, 2, 2, <<>>, <<>>)

\* A hunk that adds one line at the largest line number a diff can name:
\* "@@ -M,0 +M @@".
HunkFar ==
    DiffHunk(UsizeMax, 0, UsizeMax, 1, <<>>,
             <<DiffLine("Added", <<120>>, None, Some(UsizeMax))>>)

\* A header that takes one line away, with no content line after it:
\* "@@ -3 +2,0 @@".
HunkNoLinesRemoved == DiffHunk(3, 1, 2, 0, <<>>, <<>>)

\* The diff files handed to the slicer.
SliceFileSet ==
    {DiffFile(StrA, None, "Modified", <<HunkChange>>),
     DiffFile(StrA, None, "Modified", <<HunkAdd, HunkFar>>),
     DiffFile(StrB, None, "Modified", <<HunkNoLinesRemoved>>),
     DiffFile(StrA, None, "Modified", <<HunkChange, HunkAdd>>),
     DiffFile(StrA, None, "Added", <<HunkNoLines>>),
     DiffFile(StrB, None, "Deleted", <<HunkDelete>>),
     DiffFile(StrB, Some(StrA), "Renamed", <<HunkAdd>>),
     DiffFile(StrB, None, "Modified", <<>>)}

\* What a path holds on disk: nothing readable, an empty file, three lines.
DiskContents == {None, Some(<<>>), Some(<<<<49>>, <<50>>, <<51>>>>)}

\* The largest number of diff files and the largest context_lines.
MaxFiles == 2
MaxContext == 1

InitSlice ==
    /\ NotSliceIdle
    /\ overflow_checks \in BOOLEAN
    /\ slice_files \in UNION {[1..n -> SliceFileSet] : n \in 0..MaxFiles}
    /\ slice_options \in [context_lines : 0..MaxContext, hunks_only : BOOLEAN]
    /\ disk \in [{StrA, StrB} -> DiskContents]
    /\ slice_pos = 0
    /\ slice_snippets = <<>>
    /\ reads = <<>>
    /\ emitted = <<>>
    /\ slice_result = None
    /\ slice_pc = "slicing"

\* One iteration of the loop of slice_diff_hunks: the file is sliced and its
\* snippets appended, or the error of slice_with_context is returned.
SliceFile ==
    /\ slice_pc = "slicing"
    /\ slice_pos < Len(slice_files)
    /\ LET file == slice_files[slice_pos + 1]
           out == slice_file(file, slice_options, overflow_checks)
       IN  /\ slice_pos' = slice_pos + 1
           /\ reads' = IF out.did_read
                       THEN Append(reads, <<slice_pos + 1, file.path>>)
                       ELSE reads
           /\ IF out.panicked
              THEN /\ slice_pc' = "panicked"
                   /\ UNCHANGED <<slice_snippets, emitted, slice_result>>
              ELSE IF out.kind = "Err"
              THEN /\ slice_pc' = "returned"
                   /\ slice_result' = Some([kind |-> "Err", path |-> file.path])
                   /\ slice_snippets' = <<>>
                   /\ UNCHANGED emitted
              ELSE /\ slice_pc' = "slicing"
                   /\ slice_snippets' = slice_snippets \o out.snippets
                   /\ emitted' = Append(emitted, Len(out.snippets))
                   /\ UNCHANGED slice_result
    /\ UNCHANGED <<slice_files, slice_options, disk>>
    /\ UNCHANGED notSliceVars

\* After the loop: Ok(snippets).
SliceReturn ==
    /\ slice_pc = "slicing"
    /\ slice_pos = Len(slice_files)
    /\ slice_result' = Some([kind |-> "Ok", snippets |-> slice_snippets])
    /\ slice_pc' = "returned"
    /\ UNCHANGED <<slice_files, slice_options, disk, slice_pos, slice_snippets,
                   reads, emitted>>
    /\ UNCHANGED notSliceVars

NextSlice == SliceFile \/ SliceReturn

SpecSlice == InitSlice /\ [][NextSlice]_vars

(***************************************************************************)
(* Manifest (manifest.rs).  Its JSON form is modelled as the JSON value    *)
(* serde_json writes for the derived Serialize and reads back for the      *)
(* derived Deserialize: objects are ordered lists of <<key, value>>.  An   *)
(* f64 is a fraction; a zero denominator stands for NaN and the infinities.*)
(***************************************************************************)
JNull == [t |-> "null"]
JBool(b) == [t |-> "bool", v |-> b]
JUInt(n) == [t |-> "uint", v |-> n]
JFloat(x) == [t |-> "float", v |-> x]
JStr(str) == [t |-> "string", v |-> str]
JArr(items) == [t |-> "array", v |-> items]
JObj(fields) == [t |-> "object", v |-> fields]

\* serde_json writes a non-finite f64 as null.
f64_to_json(x) == IF x.den = 0 THEN JNull ELSE JFloat(x)

option_usize_to_json(opt) == IF opt = None THEN JNull ELSE JUInt(opt[1])

\* Mutant: the language of an entry is not written.
entry_to_json_no_language(e) ==
    JObj(<<<<"file_path", JStr(e.file_path)>>,
           <<"start_line", JUInt(e.start_line)>>,
           <<"end_line", JUInt(e.end_line)>>,
           <<"token_estimate", JUInt(e.token_estimate)>>,
           <<"char_count", JUInt(e.char_count)>>,
           <<"reason", JStr(e.reason)>>,
           <<"score", f64_to_json(e.score)>>,
           <<"included", JBool(e.included)>>>>)

\* #[derive(Serialize)] for ManifestEntry
entry_to_json(e) ==
    JObj(<<<<"file_path", JStr(e.file_path)>>,
           <<"start_line", JUInt(e.start_line)>>,
           <<"end_line", JUInt(e.end_line)>>,
           <<"token_estimate", JUInt(e.token_estimate)>>,
           <<"char_count", JUInt(e.char_count)>>,
           <<"reason", JStr(e.reason)>>,
           <<"score", f64_to_json(e.score)>>,
           <<"included", JBool(e.included)>>,
           <<"language", JStr(e.language)>>>>)

\* #[derive(Serialize)] for WeightsUsed, behind an Option
weights_to_json(opt) ==
    IF opt = None THEN JNull
    ELSE JObj(<<<<"text", f64_to_json(opt[1].text)>>,
                <<"diff", f64_to_json(opt[1].diff)>>,
                <<"recency", f64_to_json(opt[1].recency)>>,
                <<"proximity", f64_to_json(opt[1].proximity)>>,
                <<"test", f64_to_json(opt[1].test)>>>>)

\* #[derive(Serialize)] for ManifestSummary
summary_to_json(sm) ==
    JObj(<<<<"total_tokens", JUInt(sm.total_tokens)>>,
           <<"budget", option_usize_to_json(sm.budget)>>,
           <<"reserve_tokens", JUInt(sm.reserve_tokens)>>,
           <<"snippet_count", JUInt(sm.snippet_count)>>,
           <<"included_count", JUInt(sm.included_count)>>,
           <<"model", JStr(sm.model)>>,
           <<"weights_used", weights_to_json(sm.weights_used)>>>>)

\* #[derive(Serialize)] for Manifest: serde_json::to_string_pretty
manifest_to_json(m) ==
    JObj(<<<<"summary", summary_to_json(m.summary)>>,
           <<"entries",
             JArr([i \in 1..Len(m.entries) |-> entry_to_json(m.entries[i])])>>>>)

\* The value of a field of a JSON object: an error for a value that is no
\* object and for a key given twice, null for a key that is missing.
field(j, key) ==
    IF j.t # "object" THEN Err("invalid type")
    ELSE LET hits == {i \in 1..Len(j.v) : j.v[i][1] = key}
         IN IF Cardinality(hits) > 1 THEN Err("duplicate field")
            ELSE IF hits = {} THEN Ok(JNull)
            ELSE Ok(j.v[CHOOSE i \in hits : TRUE][2])

usize_from_json(r) ==
    IF r.ok /\ r.value.t = "uint" THEN Ok(r.value.v) ELSE Err("invalid type")

\* An f64 is read from any JSON number.
f64_from_json(r) ==
    IF r.ok /\ r.value.t = "float" THEN Ok(r.value.v)
    ELSE IF r.ok /\ r.value.t = "uint" THEN Ok(Frac(r.value.v, 1))
    ELSE Err("invalid type")

string_from_json(r) ==
    IF r.ok /\ r.value.t = "string" THEN Ok(r.value.v) ELSE Err("invalid type")

bool_from_json(r) ==
    IF r.ok /\ r.value.t = "bool" THEN Ok(r.value.v) ELSE Err("invalid type")

\* An Option is None for null and for a missing field.
option_usize_from_json(r) ==
    IF r.ok /\ r.value.t = "null" THEN Ok(None)
    ELSE IF r.ok /\ r.value.t = "uint" THEN Ok(Some(r.value.v))
    ELSE Err("invalid type")

\* #[derive(Deserialize)] for ManifestEntry
entry_from_json(j) ==
    LET file_path == string_from_json(field(j, "file_path"))
        start_line == usize_from_json(field(j, "start_line"))
        end_line == usize_from_json(field(j, "end_line"))
        token_estimate == usize_from_json(field(j, "token_estimate"))
        char_count == usize_from_json(field(j, "char_count"))
        reason == string_from_json(field(j, "reason"))
        score == f64_from_json(field(j, "score"))
        is_included == bool_from_json(field(j, "included"))
        language == string_from_json(field(j, "language"))
    IN IF /\ file_path.ok /\ start_line.ok /\ end_line.ok
          /\ token_estimate.ok /\ char_count.ok /\ reason.ok /\ score.ok
          /\ is_included.ok /\ language.ok
       THEN Ok(Entry(file_path.value, start_line.value, end_line.value,
                     token_estimate.value, char_count.value, reason.value,
                     score.value, is_included.value, language.value))
       ELSE Err("invalid entry")

\* #[derive(Deserialize)] for WeightsUsed, behind an Option
weights_from_json(r) ==
    IF ~r.ok THEN Err("invalid type")
    ELSE IF r.value.t = "null" THEN Ok(None)
    ELSE LET text == f64_from_json(field(r.value, "text"))
             diff == f64_from_json(field(r.value, "diff"))
             recency == f64_from_json(field(r.value, "recency"))
             proximity == f64_from_json(field(r.value, "proximity"))
             test == f64_from_json(field(r.value, "test"))
         IN IF text.ok /\ diff.ok /\ recency.ok /\ proximity.ok /\ test.ok
            THEN Ok(Some([text |-> text.value, diff |-> diff.value,
                          recency |-> recency.value,
                          proximity |-> proximity.value, test |-> test.value]))
            ELSE Err("invalid weights")

ManifestSummary(total, budget, reserve, count, n_included, model, used) ==
    [total_tokens |-> total, budget |-> budget, reserve_tokens |-> reserve,
     snippet_count |-> count, included_count |-> n_included, model |-> model,
     weights_used |-> used]

\* #[derive(Deserialize)] for ManifestSummary
summary_from_json(r) ==
    IF ~r.ok THEN Err("invalid type")
    ELSE LET j == r.value
             total_tokens == usize_from_json(field(j, "total_tokens"))
             budget == option_usize_from_json(field(j, "budget"))
             reserve_tokens == usize_from_json(field(j, "reserve_tokens"))
             snippet_count == usize_from_json(field(j, "snippet_count"))
             included_count == usize_from_json(field(j, "included_count"))
             model == string_from_json(field(j, "model"))
             weights_used == weights_from_json(field(j, "weights_used"))
         IN IF /\ total_tokens.ok /\ budget.ok /\ reserve_tokens.ok
               /\ snippet_count.ok /\ included_count.ok /\ model.ok
               /\ weights_used.ok
            THEN Ok(ManifestSummary(total_tokens.value, budget.value,
                                    reserve_tokens.value, snippet_count.value,
                                    included_count.value, model.value,
                                    weights_used.value))
            ELSE Err("invalid summary")

\* Vec<ManifestEntry> from a JSON array
entries_from_json(r) ==
    IF ~(r.ok /\ r.value.t = "array") THEN Err("invalid type")
    ELSE LET parsed == [i \in 1..Len(r.value.v) |-> entry_from_json(r.value.v[i])]
         IN IF \A i \in 1..Len(parsed) : parsed[i].ok
            THEN Ok([i \in 1..Len(parsed) |-> parsed[i].value])
            ELSE Err("invalid entry")

\* #[derive(Deserialize)] for Manifest: serde_json::from_str
manifest_from_json(j) ==
    LET summary == summary_from_json(field(j, "summary"))
        parsed == entries_from_json(field(j, "entries"))
    IN IF summary.ok /\ parsed.ok
       THEN Ok([summary |-> summary.value, entries |-> parsed.value])
       ELSE Err("failed to parse manifest")

\* The entries of a manifest that count towards its totals.
included_entries(es) == SelectSeq(es, LAMBDA e : e.included)

\* Mutant: the total is taken over every entry.
build_manifest_total_all(es, model, budget, reserve) ==
    [summary |->
        ManifestSummary(SumSeq([i \in 1..Len(es) |-> es[i].token_estimate]),
                        budget, reserve, Len(es),
                        Len(included_entries(es)), model, None),
     entries |-> es]

\* manifest.rs build_manifest.  The sum is over token estimates of contents
\* that are all in memory at once, at 3.5 or 4 characters a token, so it stays
\* below the width of usize.
build_manifest(es, model, budget, reserve) ==
    LET counted == included_entries(es)
        total_tokens ==
            SumSeq([i \in 1..Len(counted) |-> counted[i].token_estimate])
        included_count == Len(counted)
    IN [summary |->
            ManifestSummary(total_tokens, budget, reserve, Len(es),
                            included_count, model, None),
        entries |-> es]

\* manifest.rs write_manifest: the file after the call, and its result.  The
\* directory or the file may not be writable.
write_manifest(m, file, writable) ==
    IF writable
    THEN [file |-> Some(manifest_to_json(m)), result |-> Ok("unit")]
    ELSE [file |-> file, result |-> Err("io")]

\* manifest.rs read_manifest
read_manifest(file) ==
    IF file = None THEN Err("io") ELSE manifest_from_json(file[1])

MaxEntries == 2

\* Scores as the commands give them (a position counted from the end, 0.0 in
\* pack) and as the tests of the module give them (0.8).
ManifestScores == {Frac(1, 1), Frac(4, 5)}

ManifestEntrySet ==
    {Entry(StrA, 1, 2, tokens, 4 * tokens, "matched", score, is_included, "rust") :
        tokens \in 1..2, score \in ManifestScores, is_included \in BOOLEAN}

ManifestEntryLists ==
    UNION {[1..n -> ManifestEntrySet] : n \in 0..MaxEntries}

ManifestMetas ==
    [model : {"gpt-4", "claude"},
     budget : {None, Some(0), Some(MaxBudget)},
     reserve : {0, 1}]

\* A manifest written by another run, with the weights recorded, a score
\* written as an integer and a key this version does not know.
ExistingManifest ==
    JObj(<<<<"version", JUInt(1)>>,
           <<"summary",
             JObj(<<<<"total_tokens", JUInt(2)>>,
                    <<"reserve_tokens", JUInt(0)>>,
                    <<"snippet_count", JUInt(1)>>,
                    <<"included_count", JUInt(1)>>,
                    <<"model", JStr("gpt-4")>>,
                    <<"weights_used",
                      JObj(<<<<"text", JFloat(Frac(1, 1))>>,
                             <<"diff", JFloat(Frac(1, 2))>>,
                             <<"recency", JFloat(Frac(0, 1))>>,
                             <<"proximity", JFloat(Frac(0, 1))>>,
                             <<"test", JUInt(0)>>>>)>>>>)>>,
           <<"entries",
             JArr(<<JObj(<<<<"file_path", JStr(StrB)>>,
                           <<"start_line", JUInt(1)>>,
                           <<"end_line", JUInt(1)>>,
                           <<"token_estimate", JUInt(2)>>,
                           <<"char_count", JUInt(8)>>,
                           <<"reason", JStr("matched")>>,
                           <<"score", JUInt(1)>>,
                           <<"included", JBool(TRUE)>>,
                           <<"language", JStr("rust")>>>>)>>)>>>>)

\* A file that is JSON but no manifest: the entries are missing.
BrokenManifest ==
    JObj(<<<<"summary", summary_to_json(build_manifest(<<>>, "gpt-4", None, 0).summary)>>>>)

ManifestFiles == {None, Some(ExistingManifest), Some(BrokenManifest)}

InitManifest ==
    /\ NotManifestIdle
    /\ man_entries \in ManifestEntryLists
    /\ man_meta \in ManifestMetas
    /\ manifest = None
    /\ manifest_file \in ManifestFiles
    /\ loaded = None
    /\ man_pc = "start"

\* pack.rs, diff.rs, collect.rs: the manifest of a run is built.
BuildManifest ==
    /\ man_pc = "start"
    /\ manifest' = Some(build_manifest(man_entries, man_meta.model,
                                       man_meta.budget, man_meta.reserve))
    /\ man_pc' = "built"
    /\ UNCHANGED <<man_entries, man_meta, manifest_file, loaded>>
    /\ UNCHANGED notManifestVars

\* pack.rs, diff.rs, collect.rs: the manifest of the run is written.
WriteManifest ==
    /\ man_pc = "built"
    /\ \E writable \in BOOLEAN :
        LET w == write_manifest(manifest[1], manifest_file, writable)
        IN /\ manifest_file' = w.file
           /\ man_pc' = IF w.result.ok THEN "written" ELSE "write_failed"
    /\ UNCHANGED <<man_entries, man_meta, manifest, loaded>>
    /\ UNCHANGED notManifestVars

\* explain.rs, stats.rs: a manifest is read, the one just written or the one
\* an earlier run left.
ReadManifest ==
    /\ man_pc \in {"start", "written"}
    /\ loaded' = Some(read_manifest(manifest_file))
    /\ man_pc' = "loaded"
    /\ UNCHANGED <<man_entries, man_meta, manifest, manifest_file>>
    /\ UNCHANGED notManifestVars

NextManifest == BuildManifest \/ WriteManifest \/ ReadManifest

SpecManifest == InitManifest /\ [][NextManifest]_vars

(***************************************************************************)
(* Search (indexer.rs, commands/collect.rs collect_grep).  A scanned file  *)
(* is its path, and what it holds is a sequence of lines.  Of the pattern  *)
(* language the model keeps the literal: a pattern is a non-empty byte     *)
(* string that matches itself, except that "(" opens a group that is never *)
(* closed and does not compile.                                            *)
(***************************************************************************)
\* "x"
PatternX == <<120>>

\* "("
PatternOpen == <<40>>

\* Regex::new
regex_new(pattern) ==
    IF \E i \in 1..Len(pattern) : pattern[i] = 40
    THEN Err("InvalidPattern")
    ELSE Ok(pattern)

\* Regex::find_iter: the leftmost matches that do not overlap, as byte
\* offsets from `at` on.
RECURSIVE find_iter(_, _, _)
find_iter(re, line, at) ==
    IF at + Len(re) > Len(line) THEN <<>>
    ELSE IF SubSeq(line, at + 1, at + Len(re)) = re
         THEN <<[start |-> at, len |-> Len(re)]>>
              \o find_iter(re, line, at + Len(re))
    ELSE find_iter(re, line, at + 1)

RECURSIVE flatten(_)
flatten(ss) == IF ss = <<>> THEN <<>> ELSE Head(ss) \o flatten(Tail(ss))

\* Search within a single file's content for regex matches.
search_content(re, content, file_path) ==
    flatten([line_idx \in 1..Len(content) |->
               LET found == find_iter(re, content[line_idx], 0)
               IN [k \in 1..Len(found) |->
                     [file_path |-> file_path,
                      line_number |-> line_idx,
                      line_content |-> content[line_idx],
                      column |-> found[k].start,
                      match_length |-> found[k].len]]])

\* std::fs::read_to_string followed by lines(): None when the read fails.
read_to_string(fs, path) == fs[path]

\* Search file contents for a regex pattern: the result, and the files the
\* loop tried to read, in order.
search_files(scanned, pattern, fs) ==
    LET re == regex_new(pattern)
        per == [i \in 1..Len(scanned) |->
                  IF read_to_string(fs, scanned[i]) = None THEN <<>>
                  ELSE search_content(re.value,
                                      read_to_string(fs, scanned[i])[1],
                                      scanned[i])]
    IN IF ~re.ok THEN [result |-> Err(re.error), reads |-> <<>>]
       ELSE [result |-> Ok([matches |-> flatten(per),
                            files_searched |-> Len(scanned),
                            files_matched |->
                                Cardinality({i \in 1..Len(scanned) :
                                               per[i] # <<>>})]),
             reads |-> scanned]

\* group_by_file(..).keys() after file_paths.sort()
RECURSIVE sorted_paths(_)
sorted_paths(paths) ==
    IF paths = {} THEN <<>>
    ELSE LET least == CHOOSE p \in paths :
                         \A q \in paths : str_cmp(p, q) # "Greater"
         IN <<least>> \o sorted_paths(paths \ {least})

\* Vec::truncate under `if let Some(max) = options.max_files`
truncate_paths(file_paths, max_files) ==
    IF max_files = None THEN file_paths
    ELSE SubSeq(file_paths, 1, Min(Len(file_paths), max_files[1]))

\* Each match expands by context_lines above and below, then overlapping
\* ranges are merged.
compute_match_ranges(file_matches, context_lines, total_lines, checks) ==
    LET ends == [i \in 1..Len(file_matches) |->
                   add_usize(file_matches[i].line_number, context_lines,
                             checks)]
        mapped == [i \in 1..Len(file_matches) |->
                     <<Max(saturating_sub(file_matches[i].line_number,
                                          context_lines), 1),
                       Min(ends[i].value, total_lines)>>]
    IN [ranges |-> collect_merge_overlapping_ranges(sort_by_start(mapped)),
        panicked |-> \E i \in 1..Len(file_matches) : ends[i].panicked]

\* RankingWeights::default, in tenths.
DefaultRankingWeights ==
    [text |-> 10, diff |-> 20, recency |-> 5, proximity |-> 15, test |-> 8]

\* "grep match"
GrepMatch == <<103, 114, 101, 112, 32, 109, 97, 116, 99, 104>>

\* format!("grep match{} for '{}'", if match_count == 1 { "" } else { "es" },
\* pattern)
grep_reason(match_count, pattern) ==
    GrepMatch \o (IF match_count = 1 THEN <<>> ELSE <<101, 115>>)
    \o <<32, 102, 111, 114, 32, 39>> \o pattern \o <<39>>

\* collect_grep: the body of `for file_path in file_paths`, the sections of
\* one file with their match counts.  A second read that fails gives none.
file_sections(file_path, matches, pattern, context_lines, fs, checks) ==
    LET content == read_to_string(fs, file_path)
        lines == content[1]
        file_matches == SelectSeq(matches,
                                  LAMBDA m : m.file_path = file_path)
        computed == compute_match_ranges(file_matches, context_lines,
                                         Len(lines), checks)
        rs == computed.ranges
        count(r) == Len(SelectSeq(file_matches,
                                  LAMBDA m : /\ m.line_number >= r[1]
                                             /\ m.line_number <= r[2]))
    IN IF content = None THEN [sections |-> <<>>, panicked |-> FALSE]
       ELSE [sections |->
               [i \in 1..Len(rs) |->
                  [section |->
                     [file_path |-> file_path,
                      language |-> infer_language(file_path),
                      content |->
                          join(SubSeq(lines, saturating_sub(rs[i][1], 1) + 1,
                                      Min(rs[i][2], Len(lines))),
                               <<10>>),
                      reason |-> grep_reason(count(rs[i]), pattern)],
                   match_count |-> count(rs[i])]],
             panicked |->
                \/ computed.panicked
                \/ \E i \in 1..Len(rs) :
                      saturating_sub(rs[i][1], 1) > Min(rs[i][2], Len(lines))]

\* collect_grep from group_by_file on: the ranked sections of the matches
\* that search_files returned.
grep_sections(matches, pattern, context_lines, max_files, fs, checks) ==
    LET file_paths ==
            truncate_paths(
                sorted_paths({matches[i].file_path : i \in 1..Len(matches)}),
                max_files)
        per == [i \in 1..Len(file_paths) |->
                  file_sections(file_paths[i], matches, pattern,
                                context_lines, fs, checks)]
        built == flatten([i \in 1..Len(file_paths) |-> per[i].sections])
        ranked_sections ==
            rank_snippets([i \in 1..Len(built) |-> built[i].section],
                          [i \in 1..Len(built) |-> built[i].match_count],
                          DefaultRankingWeights)
    IN [sections |-> [i \in 1..Len(ranked_sections) |->
                        ranked_sections[i].section],
        panicked |-> \E i \in 1..Len(file_paths) : per[i].panicked]

\* The scanned paths.
SearchPaths == {StrA, StrAB, StrB}

\* What a scanned path holds: nothing that can be read, a line without a
\* match, a match on the first line, or a line with two matches behind two
\* lines without one.
SearchContents ==
    {None, Some(<<<<121>>>>), Some(<<<<120>>, <<121>>>>),
     Some(<<<<121>>, <<121>>, <<120, 121, 120>>>>)}

\* The scanner returns no path twice; the order is that of the walk.
ScannedLists ==
    {s \in UNION {[1..n -> SearchPaths] : n \in 0..Cardinality(SearchPaths)} :
        \A i, j \in 1..Len(s) : i # j => s[i] # s[j]}

InitSearch ==
    /\ NotSearchIdle
    /\ search_in \in [files : ScannedLists,
                      pattern : {PatternX, PatternOpen},
                      context_lines : 0..MaxContext,
                      max_files : {None, Some(1)}]
    /\ search_disk \in [SearchPaths -> SearchContents]
    /\ search_reads = <<>>
    /\ search_out = [matches |-> <<>>, files_matched |-> 0, sections |-> <<>>]
    /\ search_pc = "ready"

\* collect_grep up to `if result.matches.is_empty()`: the pattern is
\* compiled, every scanned file is read and searched, and without a match
\* the command returns no section.
SearchFiles ==
    /\ search_pc = "ready"
    /\ LET searched == search_files(search_in.files, search_in.pattern,
                                    search_disk)
       IN /\ search_reads' = searched.reads
          /\ IF ~searched.result.ok
             THEN /\ search_pc' = "failed"
                  /\ UNCHANGED search_out
             ELSE /\ search_out' =
                        [search_out EXCEPT
                           !.matches = searched.result.value.matches,
                           !.files_matched =
                               searched.result.value.files_matched]
                  /\ search_pc' =
                        IF searched.result.value.matches = <<>>
                        THEN "done" ELSE "searched"
    /\ UNCHANGED <<search_in, search_disk>>
    /\ UNCHANGED notSearchVars

\* The working tree changes between the two reads of collect_grep: a file
\* that was searched can no longer be read.
FileLost ==
    /\ search_pc = "searched"
    /\ \E path \in SearchPaths :
          /\ search_disk[path] # None
          /\ search_disk' = [search_disk EXCEPT ![path] = None]
    /\ search_pc' = "changed"
    /\ UNCHANGED <<search_in, search_reads, search_out>>
    /\ UNCHANGED notSearchVars

\* collect_grep from group_by_file on: the files with a match are read a
\* second time and their sections are built and ranked.
BuildSections ==
    /\ search_pc \in {"searched", "changed"}
    /\ LET built == grep_sections(search_out.matches, search_in.pattern,
                                  search_in.context_lines,
                                  search_in.max_files, search_disk,
                                  overflow_checks)
       IN IF built.panicked
          THEN /\ search_pc' = "panicked"
               /\ UNCHANGED search_out
          ELSE /\ search_pc' = "done"
               /\ search_out' = [search_out EXCEPT
                                   !.sections = built.sections]
    /\ search_reads' =
          search_reads
          \o truncate_paths(
                 sorted_paths({search_out.matches[i].file_path :
                                 i \in 1..Len(search_out.matches)}),
                 search_in.max_files)
    /\ UNCHANGED <<search_in, search_disk>>
    /\ UNCHANGED notSearchVars

NextSearch == SearchFiles \/ FileLost \/ BuildSections

SpecSearch == InitSearch /\ [][NextSearch]_vars

(***************************************************************************)
(* Claims about the range merger.                                          *)
(***************************************************************************)
Lines(r) == r[1]..r[2]

Covered(rs) == UNION {Lines(rs[i]) : i \in 1..Len(rs)}

WellFormedInput == \A i \in 1..Len(ranges) : ranges[i][1] <= ranges[i][2]

\* C9: for input ranges with start <= end in any order, the merge pipeline
\* (sort by start, then merge_overlapping_ranges) returns ranges sorted by
\* start, each with start <= end, pairwise disjoint and non-adjacent, that
\* cover exactly the lines the input covers; each output range is a maximal
\* run of covered lines, so two ranges are combined exactly when
\* next.start <= current.end + 1.
C9_MergeResult ==
    (merge_pc \in {"merged", "remerged"} /\ WellFormedInput) =>
        /\ \A i \in 1..Len(merged) : merged[i][1] <= merged[i][2]
        /\ \A i \in 1..(Len(merged) - 1) : merged[i + 1][1] > merged[i][2] + 1
        /\ Covered(merged) = Covered(ranges)
        /\ \A i \in 1..Len(merged) :
              /\ (merged[i][1] - 1) \notin Covered(ranges)
              /\ (merged[i][2] + 1) \notin Covered(ranges)

\* C9 witness: an unsorted input of three well-formed ranges, two of them
\* adjacent (not overlapping), merged into two ranges.
C9_Witness ==
    /\ merge_pc = "merged"
    /\ merge_impl = "slicer"
    /\ WellFormedInput
    /\ Len(ranges) = 3
    /\ ranges[1][1] > ranges[2][1]
    /\ \E i, j \in 1..3 : ranges[j][1] = ranges[i][2] + 1
    /\ \A i, j \in 1..3 : i # j => Lines(ranges[i]) \cap Lines(ranges[j]) = {}
    /\ Len(merged) = 2

\* C10: merge(merge(R)) = merge(R), for both copies of the merge.
C10_MergeIdempotent ==
    merge_pc = "remerged" => remerged = merged

\* C10 witness: the collect copy has merged three ranges into fewer and has
\* been run again over its result.
C10_Witness ==
    /\ merge_pc = "remerged"
    /\ merge_impl = "collect"
    /\ Len(ranges) = 3
    /\ Len(merged) \in {1, 2}
    /\ merged # ranges

(***************************************************************************)
(* Claims about the unified diff parser.                                   *)
(***************************************************************************)
\* The positions of the "diff --git " lines of the input, in order.
HeaderPositions ==
    LET IsHeader(i) == starts_with(diff_input[i], DiffGitPrefix)
        RECURSIVE Upto(_)
        Upto(n) == IF n = 0 THEN <<>>
                   ELSE IF IsHeader(n) THEN Append(Upto(n - 1), n)
                   ELSE Upto(n - 1)
    IN Upto(Len(diff_input))

\* The paths a header line of the model names: <<p1, p2>>.
HeaderPaths(line) ==
    IF line = LineHeaderSame THEN <<StrA, StrA>> ELSE <<StrA, StrB>>

\* The lines of a sequence that satisfy the kinds given.
OfKinds(lines, kinds) ==
    LET Kept(l) == l.kind \in kinds IN SelectSeq(lines, Kept)

\* C11: in every hunk returned, Added lines carry new_lineno only, Removed
\* lines old_lineno only, Context lines both; the k-th line with a new
\* number has new_start + k - 1 and the k-th line with an old number has
\* old_start + k - 1.
C11_LineNumbering ==
    parse_pc = "done" =>
        \A f \in 1..Len(files) : \A h \in 1..Len(files[f].hunks) :
            LET hunk == files[f].hunks[h]
                news == OfKinds(hunk.lines, {"Added", "Context"})
                olds == OfKinds(hunk.lines, {"Removed", "Context"})
            IN  /\ \A i \in 1..Len(hunk.lines) :
                      LET l == hunk.lines[i]
                      IN  /\ l.kind = "Added" =>
                                l.new_lineno # None /\ l.old_lineno = None
                          /\ l.kind = "Removed" =>
                                l.old_lineno # None /\ l.new_lineno = None
                          /\ l.kind = "Context" =>
                                l.old_lineno # None /\ l.new_lineno # None
                /\ \A k \in 1..Len(news) :
                      news[k].new_lineno = Some(hunk.new_start + k - 1)
                /\ \A k \in 1..Len(olds) :
                      olds[k].old_lineno = Some(hunk.old_start + k - 1)

\* C12: the file of each "diff --git a/<p1> b/<p2>" block has path p2 and is
\* Added if a "--- /dev/null" line follows the header before the first hunk,
\* else Deleted if a "+++ /dev/null" line does, else Renamed with old path p1
\* if p1 differs from p2, else Modified.
C12_StatusInference ==
    parse_pc = "done" =>
        /\ Len(files) = Len(HeaderPositions)
        /\ \A i \in 1..Len(files) :
              LET at == HeaderPositions[i]
                  next == IF i < Len(HeaderPositions)
                          THEN HeaderPositions[i + 1]
                          ELSE Len(diff_input) + 1
                  head == {j \in (at + 1)..(next - 1) :
                              \A k \in (at + 1)..j :
                                  ~starts_with(diff_input[k], HunkPrefix)}
                  p1 == HeaderPaths(diff_input[at])[1]
                  p2 == HeaderPaths(diff_input[at])[2]
                  from_null == \E j \in head : diff_input[j] = OldDevNull
                  to_null == \E j \in head : diff_input[j] = NewDevNull
              IN  /\ files[i].path = p2
                  /\ files[i].status =
                         IF from_null THEN "Added"
                         ELSE IF to_null THEN "Deleted"
                         ELSE IF p1 # p2 THEN "Renamed"
                         ELSE "Modified"
                  /\ files[i].status = "Renamed" => files[i].old_path = Some(p1)

\* C13: in every DiffFile returned, old_path is present if and only if the
\* status is Renamed.
C13_OldPathIffRenamed ==
    parse_pc = "done" =>
        \A i \in 1..Len(files) :
            files[i].old_path # None <=> files[i].status = "Renamed"

\* C14: the parser never aborts; what it returns has one DiffFile per
\* "diff --git " line, in input order, and nothing for the empty input.
C14_ParserTotal ==
    /\ parse_pc # "panicked"
    /\ parse_pc = "done" =>
          /\ Len(files) = Len(HeaderPositions)
          /\ \A i \in 1..Len(files) :
                files[i].path = HeaderPaths(diff_input[HeaderPositions[i]])[2]
          /\ diff_input = <<>> => files = <<>>

\* The kind the first byte of a line stands for, and the line without it.
FirstByteKind(line) ==
    IF line # <<>> /\ line[1] = 43 THEN "Added"
    ELSE IF line # <<>> /\ line[1] = 45 THEN "Removed"
    ELSE "Context"

FirstByteContent(line) ==
    IF line # <<>> /\ line[1] \in {43, 45, 32} THEN Tail(line) ELSE line

\* C24: within an open hunk, a line that is neither a "diff --git " nor a
\* "@@ " header is recorded by its first byte alone: '+' as Added, advancing
\* new_lineno only, '-' as Removed, advancing old_lineno only, anything else
\* as Context, advancing both; only the exact no-newline marker is skipped.
C24_FirstByteClassification ==
    [][(/\ parse_pc = "parsing"
        /\ parse_pc' = "parsing"
        /\ Len(diff_input') = Len(diff_input) + 1
        /\ current_hunk # None
        /\ ~starts_with(diff_input'[Len(diff_input')], DiffGitPrefix)
        /\ ~starts_with(diff_input'[Len(diff_input')], HunkPrefix))
       => LET line == diff_input'[Len(diff_input')]
              kind == FirstByteKind(line)
          IN IF line = NoNewlineMarker
             THEN UNCHANGED <<current_hunk, old_lineno, new_lineno>>
             ELSE /\ current_hunk' # None
                  /\ Len(current_hunk'[1].lines) = Len(current_hunk[1].lines) + 1
                  /\ SubSeq(current_hunk'[1].lines, 1, Len(current_hunk[1].lines))
                         = current_hunk[1].lines
                  /\ LET l == current_hunk'[1].lines[Len(current_hunk'[1].lines)]
                     IN /\ l.kind = kind
                        /\ l.content = FirstByteContent(line)
                  /\ (kind = "Added") => old_lineno' = old_lineno
                  /\ (kind = "Removed") => new_lineno' = new_lineno
                  /\ (kind # "Added") => old_lineno' # old_lineno
                  /\ (kind # "Removed") => new_lineno' # new_lineno]_vars

\* C25: every hunk of the files returned has at least one line, also when
\* the input has a hunk header that no content line follows.
C25_HunksNonEmpty ==
    parse_pc = "done" =>
        \A f \in 1..Len(files) : \A h \in 1..Len(files[f].hunks) :
            files[f].hunks[h].lines # <<>>

\* The positions from lo to hi of the input lines that start with "@@ " and
\* whose ranges parse, in order.
RECURSIVE HunkPositions(_, _)
HunkPositions(lo, hi) ==
    IF hi < lo THEN <<>>
    ELSE IF diff_input[hi] \in {LineHunk, LineHunkMax}
    THEN Append(HunkPositions(lo, hi - 1), hi)
    ELSE HunkPositions(lo, hi - 1)

\* The texts of the content lines among the input lines from lo to hi: the
\* path and /dev/null markers and the no-newline marker are no content.
RECURSIVE ContentTexts(_, _)
ContentTexts(lo, hi) ==
    IF hi < lo THEN <<>>
    ELSE IF \/ starts_with(diff_input[hi], OldPathPrefix)
            \/ starts_with(diff_input[hi], NewPathPrefix)
            \/ diff_input[hi] = NoNewlineMarker
    THEN ContentTexts(lo, hi - 1)
    ELSE Append(ContentTexts(lo, hi - 1), FirstByteContent(diff_input[hi]))

\* C30: the hunks of each file returned are the hunks opened between its
\* "diff --git " line and the next one, in input order, each with the
\* content lines up to the next "@@ " or "diff --git " line; a hunk opened
\* before any file header appears nowhere, and the lines after an "@@ " line
\* whose ranges fail to parse belong to no hunk.
C30_HunkAttachment ==
    parse_pc = "done" =>
        /\ Len(files) = Len(HeaderPositions)
        /\ \A i \in 1..Len(files) :
              LET at == HeaderPositions[i]
                  next == IF i < Len(HeaderPositions)
                          THEN HeaderPositions[i + 1]
                          ELSE Len(diff_input) + 1
                  opened == HunkPositions(at + 1, next - 1)
              IN  /\ Len(files[i].hunks) = Len(opened)
                  /\ \A h \in 1..Len(opened) :
                        LET later == {j \in (opened[h] + 1)..(next - 1) :
                                         starts_with(diff_input[j], HunkPrefix)}
                            stop == IF later = {} THEN next
                                    ELSE CHOOSE j \in later :
                                             \A k \in later : j <= k
                            hunk == files[i].hunks[h]
                        IN  /\ hunk.header = diff_input[opened[h]]
                            /\ [k \in 1..Len(hunk.lines) |-> hunk.lines[k].content]
                                   = ContentTexts(opened[h] + 1, stop - 1)

\* A file whose hunk is closed by an "@@ " line that does not parse: the
\* added line after that one is in no hunk.
C30_Witness ==
    /\ parse_pc = "done"
    /\ Len(diff_input) = 4
    /\ diff_input[2] = LineHunk
    /\ diff_input[3] = LineHunkBad
    /\ diff_input[4] = LineAdded
    /\ Len(files) = 1
    /\ Len(files[1].hunks) = 1
    /\ files[1].hunks[1].lines = <<>>

(***************************************************************************)
(* Claims about the slicer.                                                *)
(***************************************************************************)
\* The lines of a hunk, each behind '+', '-' or ' ', one per line of text.
RECURSIVE Reprefixed(_)
Reprefixed(lines) ==
    IF lines = <<>> THEN <<>>
    ELSE LET l == Head(lines)
             first == <<IF l.kind = "Added" THEN 43
                        ELSE IF l.kind = "Removed" THEN 45 ELSE 32>>
                          \o l.content
         IN IF Len(lines) = 1 THEN first
            ELSE first \o <<10>> \o Reprefixed(Tail(lines))

\* The file at position i is one the slicer must read and cannot.
Unreadable(i) ==
    /\ slice_files[i].status # "Deleted"
    /\ disk[slice_files[i].path] = None

\* C15: with hunks_only false, if some file that is not Deleted cannot be
\* read, slice_diff_hunks returns an error naming the first such file and no
\* snippet, those of the files before it included.
C15_MissingFileFailsHard ==
    (slice_pc = "returned" /\ ~slice_options.hunks_only
       /\ \E i \in 1..Len(slice_files) : Unreadable(i)) =>
        /\ slice_result[1].kind = "Err"
        /\ slice_snippets = <<>>
        /\ \E i \in 1..Len(slice_files) :
              /\ Unreadable(i)
              /\ \A j \in 1..(i - 1) : ~Unreadable(j)
              /\ slice_result[1].path = slice_files[i].path
              /\ slice_pos = i

\* The second file cannot be read after the first one produced snippets.
C15_Witness ==
    /\ slice_pc = "returned"
    /\ ~slice_options.hunks_only
    /\ Len(slice_files) = 2
    /\ emitted = <<1>>
    /\ Unreadable(2)
    /\ slice_result[1].kind = "Err"

\* How many snippets the files before position i contributed.
RECURSIVE EmittedBefore(_)
EmittedBefore(i) == IF i <= 1 THEN 0 ELSE emitted[i - 1] + EmittedBefore(i - 1)

\* C16: while the slicer has not failed, each processed file that is Deleted
\* or sliced with hunks_only contributed one snippet per hunk, in hunk
\* order, holding the hunk's re-prefixed lines, and was not read.
C16_HunksOnlyNoRead ==
    (slice_pc = "slicing"
       \/ (slice_pc = "returned" /\ slice_result[1].kind = "Ok")) =>
        \A i \in 1..Len(emitted) :
            LET file == slice_files[i]
            IN (slice_options.hunks_only \/ file.status = "Deleted") =>
                  /\ emitted[i] = Len(file.hunks)
                  /\ \A h \in 1..Len(file.hunks) :
                        LET made == slice_snippets[EmittedBefore(i) + h]
                        IN  /\ made.file_path = file.path
                            /\ made.content = Reprefixed(file.hunks[h].lines)
                  /\ \A r \in 1..Len(reads) : reads[r][1] # i

\* A Deleted file that is not on disk is sliced, without hunks_only, into
\* the snippet of its hunk.
C16_Witness ==
    /\ slice_pc = "returned"
    /\ slice_result[1].kind = "Ok"
    /\ ~slice_options.hunks_only
    /\ Len(slice_files) = 1
    /\ slice_files[1].status = "Deleted"
    /\ disk[slice_files[1].path] = None
    /\ Len(slice_result[1].snippets) = 1
    /\ slice_result[1].snippets[1].content = <<45, 49, 10, 45, 50>>

\* C28: the snippet of a hunk, made with hunks_only or for a Deleted file,
\* spans the hunk: new_start to new_start + new_count - 1 in a file that is
\* not Deleted, old_start to old_start + old_count - 1 in one that is.
C28_HunkSnippetSpan ==
    (slice_pc = "slicing"
       \/ (slice_pc = "returned" /\ slice_result[1].kind = "Ok")) =>
        \A i \in 1..Len(emitted) :
            LET file == slice_files[i]
            IN (slice_options.hunks_only \/ file.status = "Deleted") =>
                  \A h \in 1..Len(file.hunks) :
                      LET made == slice_snippets[EmittedBefore(i) + h]
                          hunk == file.hunks[h]
                      IN IF file.status = "Deleted"
                         THEN /\ made.start_line = hunk.old_start
                              /\ made.end_line =
                                     hunk.old_start + hunk.old_count - 1
                         ELSE /\ made.start_line = hunk.new_start
                              /\ made.end_line =
                                     hunk.new_start + hunk.new_count - 1

\* The line numbers of the Added and Removed lines of a hunk: the new number
\* of an added line, the old number of a removed one.
ChangedNumbers(hunk) ==
    {hunk.lines[k].new_lineno[1] :
        k \in {x \in 1..Len(hunk.lines) : hunk.lines[x].kind = "Added"}}
    \cup {hunk.lines[k].old_lineno[1] :
        k \in {x \in 1..Len(hunk.lines) : hunk.lines[x].kind = "Removed"}}

\* The range the context expansion is to give a hunk.
ExpandedRange(hunk, context, total_lines) ==
    LET numbers == ChangedNumbers(hunk)
        m == IF numbers = {} THEN hunk.new_start
             ELSE CHOOSE n \in numbers : \A x \in numbers : n <= x
        top == IF numbers = {} THEN hunk.new_start + hunk.new_count - 1
               ELSE CHOOSE n \in numbers : \A x \in numbers : n >= x
    IN <<Max(1, m - context), Min(total_lines, top + context)>>

\* The file at position i was read and had lines: its hunks were expanded.
Expanded(i) ==
    /\ i <= slice_pos
    /\ ~slice_options.hunks_only
    /\ slice_files[i].status # "Deleted"
    /\ disk[slice_files[i].path] # None
    /\ disk[slice_files[i].path] # Some(<<>>)
    /\ \A j \in 1..i : ~Unreadable(j)

\* C26: the range of a hunk with an Added or Removed line runs from its
\* smallest such line number less the context, at least 1, to its largest
\* plus the context, at most the number of lines of the file; a hunk with
\* no such line is expanded from new_start and new_start + new_count - 1.
C26_ContextExpansion ==
    \A i \in 1..Len(slice_files) :
        Expanded(i) =>
            \A h \in 1..Len(slice_files[i].hunks) :
                LET total_lines == Len(disk[slice_files[i].path][1])
                    made == hunk_range(slice_files[i].hunks[h],
                                       slice_options.context_lines,
                                       total_lines, overflow_checks)
                IN  /\ ~made.panicked
                    /\ made.range =
                           ExpandedRange(slice_files[i].hunks[h],
                                         slice_options.context_lines,
                                         total_lines)

\* The text of lines from..to of a file, one per line of text.
RECURSIVE LinesText(_, _, _)
LinesText(file_lines, from, to) ==
    IF from = to THEN file_lines[from]
    ELSE file_lines[from] \o <<10>> \o LinesText(file_lines, from + 1, to)

\* C27: while the slicer has not failed, the snippets of each file sliced
\* with context lie within the file, hold exactly the lines they span, and
\* are ascending, disjoint and not adjacent, whatever line numbers the hunks
\* carry; a file of zero lines gives no snippet and no error.
C27_ContextSnippetsWellFormed ==
    (slice_pc = "slicing"
       \/ (slice_pc = "returned" /\ slice_result[1].kind = "Ok")) =>
        \A i \in 1..Len(emitted) :
            LET file == slice_files[i]
            IN (~slice_options.hunks_only /\ file.status # "Deleted") =>
                  LET file_lines == disk[file.path][1]
                      first == EmittedBefore(i) + 1
                      last == EmittedBefore(i) + emitted[i]
                  IN  /\ file_lines = <<>> => emitted[i] = 0
                      /\ \A n \in first..last :
                            LET made == slice_snippets[n]
                            IN  /\ 1 <= made.start_line
                                /\ made.start_line <= made.end_line
                                /\ made.end_line <= Len(file_lines)
                                /\ made.file_path = file.path
                                /\ made.content =
                                       LinesText(file_lines, made.start_line,
                                                 made.end_line)
                      /\ \A n \in first..(last - 1) :
                            slice_snippets[n + 1].start_line
                                > slice_snippets[n].end_line + 1

\* Two hunks whose ranges touch gave one snippet, and of the hunks of the
\* second file the one far beyond the end of the file gave none.
C27_Witness ==
    /\ slice_pc = "returned"
    /\ slice_result[1].kind = "Ok"
    /\ ~slice_options.hunks_only
    /\ slice_options.context_lines = 0
    /\ Len(slice_files) = 2
    /\ slice_files[1].hunks = <<HunkChange, HunkAdd>>
    /\ slice_files[2].hunks = <<HunkAdd, HunkFar>>
    /\ disk[slice_files[1].path] = Some(<<<<49>>, <<50>>, <<51>>>>)
    /\ emitted = <<1, 1>>
    /\ slice_snippets[1].start_line = 2
    /\ slice_snippets[1].end_line = 3
    /\ slice_snippets[2].start_line = 3

(***************************************************************************)
(* Claims about the manifest.                                              *)
(***************************************************************************)
\* Serialising a manifest and deserialising the result.
RoundTrip(m) == manifest_from_json(manifest_to_json(m))

\* C17: a manifest survives serialisation followed by deserialisation with
\* full equality, whether its entry list is empty or populated: for the
\* manifest a run builds, for the manifest read back from the file the run
\* wrote, and for every manifest read from a file.
C17_ManifestRoundTrip ==
    /\ manifest # None =>
        /\ RoundTrip(manifest[1]).ok
        /\ RoundTrip(manifest[1]).value = manifest[1]
    /\ (man_pc = "loaded" /\ manifest # None) =>
        /\ loaded[1].ok
        /\ loaded[1].value = manifest[1]
    /\ (loaded # None /\ loaded[1].ok) =>
        /\ RoundTrip(loaded[1].value).ok
        /\ RoundTrip(loaded[1].value).value = loaded[1].value

\* A populated manifest, with a budget, was written and read back.
C17_Witness ==
    /\ man_pc = "loaded"
    /\ manifest # None
    /\ Len(manifest[1].entries) = MaxEntries
    /\ manifest[1].summary.budget # None
    /\ loaded[1].ok

RECURSIVE IncludedTokens(_)
IncludedTokens(es) ==
    IF es = <<>> THEN 0
    ELSE (IF Head(es).included THEN Head(es).token_estimate ELSE 0)
         + IncludedTokens(Tail(es))

\* C18: build_manifest gives a summary whose total_tokens is the sum of the
\* token estimates of the included entries, whose included_count is their
\* number and whose snippet_count is the number of entries, and it leaves
\* the entries as they were, in their order.
C18_SummaryConsistent ==
    manifest # None =>
        LET m == manifest[1]
            counted == {i \in 1..Len(man_entries) : man_entries[i].included}
        IN /\ m.summary.total_tokens = IncludedTokens(man_entries)
           /\ m.summary.included_count = Cardinality(counted)
           /\ m.summary.snippet_count = Len(man_entries)
           /\ m.summary.included_count <= m.summary.snippet_count
           /\ m.entries = man_entries

\* A manifest was built from an entry that is included and one that is not.
C18_Witness ==
    /\ manifest # None
    /\ \E i, j \in 1..Len(man_entries) :
        man_entries[i].included /\ ~man_entries[j].included
    /\ manifest[1].summary.total_tokens > 0

(***************************************************************************)
(* Claims about the budget packer.                                         *)
(***************************************************************************)
Family == model_family(options.model)

\* Token estimates of a list of candidates.
TokensOf(list) == [i \in 1..Len(list) |-> estimate(Family, list[i].content)]

\* The manifest entries before position j that were included.
IncludedBefore(j) == {i \in 1..(j - 1) : entries[i].included}

\* Sum of the token estimates of the entries at the positions in S.
RECURSIVE EntryTokens(_)
EntryTokens(S) ==
    IF S = {} THEN 0
    ELSE LET i == CHOOSE x \in S : TRUE
         IN entries[i].token_estimate + EntryTokens(S \ {i})

MustOf(list) == {i \in 1..Len(list) : is_must(list[i], options.must)}

\* The greedy pass of a command over the candidates handed to it.
select(command, list, family, budget, must_paths) ==
    IF command = "pack" THEN greedy_pack(list, family, budget, must_paths)
    ELSE IF command = "diff"
    THEN apply_budget_and_build_entries(list, family, budget)
    ELSE apply_budget(list, family, budget)

\* C1: whenever a non-empty candidate list reaches the greedy pass of diff,
\* collect or pack, at least one candidate is included, whatever the budget.
C1_AlwaysIncludeOne ==
    (pack_pc = "done" /\ filtered # <<>>) => Len(included) >= 1

\* A budget below the first candidate's estimate, and that candidate alone
\* is included.
C1_Witness ==
    /\ pack_pc = "done"
    /\ cmd = "pack"
    /\ Len(filtered) >= 2
    /\ MustOf(filtered) = {}
    /\ effective # None
    /\ estimate(Family, filtered[1].content) > effective[1]
    /\ included = <<filtered[1]>>

\* C2: for the candidate list, must set and drop set of a run, no budget at
\* or above the budget of the run includes fewer candidates than the run did.
C2_BudgetMonotone ==
    (pack_pc = "done" /\ effective # None) =>
        \A b2 \in effective[1]..MaxBudget :
            Len(select(cmd, filtered, Family, Some(b2), options.must).included)
                >= Len(included)

\* C3: the candidates passed to the packer that match a must matcher open
\* the included list, in their order; each has an entry with included = true
\* and their tokens count against every optional candidate: an optional
\* candidate is included exactly when nothing was included before it or the
\* tokens of all entries included before it plus its own fit the budget.
C3_MustOverridesBudget ==
    (pack_pc = "done" /\ cmd = "pack") =>
        LET IsMust(x) == is_must(x, options.must)
            must_sections == SelectSeq(filtered, IsMust)
            k == Len(must_sections)
        IN  /\ Len(included) >= k
            /\ SubSeq(included, 1, k) = must_sections
            /\ \A i \in 1..k :
                  /\ entries[i].included
                  /\ entries[i].file_path = must_sections[i].file_path
                  /\ entries[i].token_estimate =
                         estimate(Family, must_sections[i].content)
            /\ effective # None =>
                  \A j \in (k + 1)..Len(entries) :
                      entries[j].included <=>
                          \/ IncludedBefore(j) = {}
                          \/ EntryTokens(IncludedBefore(j))
                                 + entries[j].token_estimate <= effective[1]

\* A must candidate that comes last in the input and alone exceeds the
\* budget is included, and an optional candidate that would have fit the
\* budget on its own is excluded because of it.
C3_Witness ==
    /\ pack_pc = "done"
    /\ cmd = "pack"
    /\ effective # None
    /\ Len(filtered) = 2
    /\ ~is_must(filtered[1], options.must)
    /\ is_must(filtered[2], options.must)
    /\ estimate(Family, filtered[2].content) > effective[1]
    /\ estimate(Family, filtered[1].content) <= effective[1]
    /\ included = <<filtered[2]>>
    /\ ~entries[2].included

\* C4: with a budget and no candidate matching a must matcher, the included
\* token estimates sum to at most the budget, unless exactly one candidate
\* is included, and that one is the first candidate considered.
C4_TokenBudgetBound ==
    (pack_pc = "done" /\ effective # None /\ MustOf(filtered) = {}) =>
        \/ SumSeq(TokensOf(included)) <= effective[1]
        \/ included = <<filtered[1]>>

\* Several candidates are included and fill the budget exactly, and a later
\* one is excluded.
C4_Witness ==
    /\ pack_pc = "done"
    /\ cmd = "diff"
    /\ effective # None
    /\ Len(included) >= 2
    /\ Len(included) < Len(filtered)
    /\ SumSeq(TokensOf(included)) = effective[1]

\* C5: every candidate of the list given to the run, before the drop filter,
\* has exactly one manifest entry: the entries are as many as the candidates
\* and, for each path and content length, as many entries as candidates.
C5_EveryCandidateHasEntry ==
    pack_pc = "done" =>
        /\ Len(entries) = Len(candidates)
        /\ \A c \in 1..Len(candidates) :
              Cardinality({i \in 1..Len(candidates) :
                              /\ candidates[i].file_path = candidates[c].file_path
                              /\ Len(candidates[i].content)
                                     = Len(candidates[c].content)})
              = Cardinality({j \in 1..Len(entries) :
                              /\ entries[j].file_path = candidates[c].file_path
                              /\ entries[j].char_count
                                     = Len(candidates[c].content)})

\* C6: no section whose path contains a drop pattern is in pack's included
\* output, must or not.
C6_DropIsHardFilter ==
    (pack_pc = "done" /\ cmd = "pack") =>
        \A i \in 1..Len(included) :
            ~(\E d \in options.drop : contains(included[i].file_path, d))

\* A section whose path contains, without being equal to them, both a drop
\* pattern and a must pattern is left out, with no budget set.
C6_Witness ==
    /\ pack_pc = "done"
    /\ cmd = "pack"
    /\ effective = None
    /\ \E i \in 1..Len(candidates) :
          /\ candidates[i].file_path = StrAB
          /\ options.drop = {StrB}
          /\ options.must = {StrA}
    /\ \A i \in 1..Len(included) : included[i].file_path # StrAB
    /\ included # <<>>

\* The candidates of a run in the order of its manifest entries: the
\* must-include ones, then the optional ones.
InEntryOrder ==
    LET IsMust(x) == is_must(x, options.must)
        IsOptional(x) == ~is_must(x, options.must)
    IN SelectSeq(filtered, IsMust) \o SelectSeq(filtered, IsOptional)

\* C20: in the pass over the optional candidates, a candidate is included
\* if and only if there is no budget, or nothing was included before it, or
\* the running total plus its token estimate is at most the budget; the
\* running total is the sum of the estimates of every candidate included
\* before it, the must-include ones among them.
C20_GreedyInclusionRule ==
    pack_pc = "done" =>
        LET k == Cardinality(MustOf(filtered))
        IN  /\ Len(entries) = Len(InEntryOrder)
            /\ \A j \in 1..Len(entries) :
                  entries[j].token_estimate =
                      estimate(Family, InEntryOrder[j].content)
            /\ \A j \in (k + 1)..Len(entries) :
                  entries[j].included <=>
                      \/ effective = None
                      \/ IncludedBefore(j) = {}
                      \/ EntryTokens(IncludedBefore(j))
                             + entries[j].token_estimate <= effective[1]
            /\ Len(included) =
                   Cardinality({j \in 1..Len(entries) : entries[j].included})

\* After a must-include candidate, an optional candidate that would have
\* fit alone is rejected on the running total, and a later, smaller one
\* fills the budget exactly.
C20_Witness ==
    /\ pack_pc = "done"
    /\ cmd = "pack"
    /\ effective # None
    /\ Cardinality(MustOf(filtered)) = 1
    /\ \E i, j \in 2..Len(entries) :
          /\ i < j
          /\ ~entries[i].included
          /\ entries[i].token_estimate <= effective[1]
          /\ entries[j].included
          /\ EntryTokens(IncludedBefore(j)) + entries[j].token_estimate
                 = effective[1]

\* C21: once an optional candidate has been left out, no later candidate is
\* included: the included optional candidates are a prefix of the optional
\* candidates in their order.
C21_IncludedPrefix ==
    pack_pc = "done" =>
        LET k == Cardinality(MustOf(filtered))
        IN \A i, j \in (k + 1)..Len(entries) :
              (i < j /\ entries[j].included) => entries[i].included

\* The elements of a list at the positions in S that are at most n, in the
\* order of the list.
RECURSIVE PickUpTo(_, _, _)
PickUpTo(list, S, n) ==
    IF n = 0 THEN <<>>
    ELSE PickUpTo(list, S, n - 1) \o (IF n \in S THEN <<list[n]>> ELSE <<>>)

Pick(list, S) == PickUpTo(list, S, Len(list))

\* C22: pack's included list is the must-matching candidates in their input
\* order followed by the included optional candidates in their input order;
\* the entries are in the same must-then-optional order, and the entries
\* with included = true are exactly the members of the included list, in the
\* same order.
C22_SelectionPreservesOrder ==
    (pack_pc = "done" /\ cmd = "pack") =>
        LET must_at == MustOf(filtered)
            optional_at == (1..Len(filtered)) \ must_at
            ordered == Pick(filtered, must_at) \o Pick(filtered, optional_at)
            included_at == {j \in 1..Len(entries) : entries[j].included}
        IN  /\ Len(entries) = Len(ordered)
            /\ \A j \in 1..Len(entries) :
                  /\ entries[j].file_path = ordered[j].file_path
                  /\ entries[j].char_count = Len(ordered[j].content)
                  /\ j <= Cardinality(must_at) => entries[j].included
            /\ included = Pick(ordered, included_at)

\* A must-include candidate that follows an optional one in the input comes
\* first, two optional ones follow in their order and one is left out.
C22_Witness ==
    /\ pack_pc = "done"
    /\ cmd = "pack"
    /\ \E i, j \in 1..Len(filtered) :
          i < j /\ j \in MustOf(filtered) /\ i \notin MustOf(filtered)
    /\ Len(included) >= 3
    /\ included[2] # included[3]
    /\ \E j \in 1..Len(entries) : ~entries[j].included

\* The estimate of a string of n characters: n divided by the characters
\* per token of the model, 3.5 for claude and 4 otherwise, rounded up.
CharsEstimate(n) ==
    LET tenths == IF options.model = Some("claude") THEN 35 ELSE 40
    IN (10 * n + tenths - 1) \div tenths

\* C23: pack selects under budget - reserve when a token budget is given,
\* whether or not a character budget is given too; otherwise under the
\* estimate of a string of `chars` characters minus the reserve when a
\* character budget is given; the difference is never below 0, and with
\* neither budget there is no limit and every candidate is included.
C23_EffectiveBudget ==
    (pack_pc = "done" /\ cmd = "pack") =>
        LET reserve == IF options.reserve = None THEN 0 ELSE options.reserve[1]
        IN  /\ options.budget # None =>
                  effective = Some(Max(options.budget[1] - reserve, 0))
            /\ (options.budget = None /\ options.chars # None) =>
                  effective =
                      Some(Max(CharsEstimate(options.chars[1]) - reserve, 0))
            /\ (options.budget = None /\ options.chars = None) =>
                  effective = None /\ included = filtered
            /\ effective # None =>
                  \/ Len(included) = 1
                  \/ SumSeq(TokensOf(included)) <= effective[1]

\* A character budget of 8 for claude, 3 tokens, less a reserve of 1, and a
\* candidate left out under the resulting budget of 2.
C23_Witness ==
    /\ pack_pc = "done"
    /\ cmd = "pack"
    /\ options.budget = None
    /\ options.chars = Some(8)
    /\ options.model = Some("claude")
    /\ options.reserve = Some(1)
    /\ effective = Some(2)
    /\ Len(included) < Len(filtered)

\* The budget and the reserve a run hands to its selection, as a
\* configuration: no reserve counts as 0.
RunBudget ==
    [default_budget |-> options.budget[1],
     reserve_tokens |-> IF options.reserve = None THEN 0 ELSE options.reserve[1]]

\* C19: a run whose budget is 0, or whose reserve is at least its budget,
\* fails with a validation error before any selection: it never reaches the
\* end of the selection, nor the early return of an empty input.
C19_InvalidBudgetRejected ==
    (pack_pc # "ready" /\ options.budget # None /\ ~validate(RunBudget).ok) =>
        pack_pc = "failed"

(***************************************************************************)
(* Claims about the ranker.                                                *)
(***************************************************************************)
Perms(n) == {f \in [1..n -> 1..n] : \A i, j \in 1..n : f[i] = f[j] => i = j}

Permute(s, f) == [i \in 1..Len(s) |-> s[f[i]]]

\* C7: ranking a permutation of the candidates (match counts permuted
\* alongside) yields the same output sequence as ranking the candidates in
\* their given order.
C7_PermutationInvariant ==
    rank_pc = "done" =>
        \A f \in Perms(Len(rank_sections)) :
            rank_snippets(Permute(rank_sections, f), Permute(match_counts, f),
                          weights) = ranked

Readable == SelectSeq(search_in.files, LAMBDA p : search_disk[p] # None)

\* What collect_grep returns for the scan without the files that cannot be
\* read.
WithoutUnreadable ==
    LET searched == search_files(Readable, search_in.pattern,
                                 search_disk).result.value
    IN [matches |-> searched.matches,
        files_matched |-> searched.files_matched,
        sections |-> grep_sections(searched.matches, search_in.pattern,
                                   search_in.context_lines,
                                   search_in.max_files, search_disk,
                                   overflow_checks).sections]

\* C29: a grep collection fails exactly when its pattern does not compile,
\* and then before any file is read; otherwise it succeeds whatever files
\* cannot be read, and its matches and sections are those of the same scan
\* with the unreadable files left out.
C29_ReadFailuresSwallowed ==
    /\ search_pc = "failed" =>
          /\ ~regex_new(search_in.pattern).ok
          /\ search_reads = <<>>
    /\ search_pc # "ready" /\ ~regex_new(search_in.pattern).ok =>
          search_pc = "failed"
    /\ search_pc # "panicked"
    /\ search_pc = "searched" =>
          /\ search_out.matches = WithoutUnreadable.matches
          /\ search_out.files_matched = WithoutUnreadable.files_matched
    /\ search_pc = "done" => search_out = WithoutUnreadable


=============================================================================
